---- MODULE Spec2Model ----
(***************************************************************************)
(* State-machine model of the orchestration helpers of src/utils.ts:       *)
(* llmCall, extractXml, chain, parallel, route, generate, evaluate, loop.  *)
(*                                                                         *)
(* Text.  A JavaScript string is modelled as a sequence of tokens; a token *)
(* is a TLA+ string standing for the characters it spells.  The string is  *)
(* the concatenation of its tokens, "" is << >>, and a template literal    *)
(* `${a}\nInput: ${b}` is a \o <<"\n", "Input: ">> \o b.  The tokens used  *)
(* are single characters, whole words and whole tags; no token is a        *)
(* concatenation of other tokens, so equal strings are equal sequences.    *)
(*                                                                         *)
(* Time.  JavaScript runs one macrotask at a time and drains the microtask *)
(* queue before the next one.  An action is therefore either the           *)
(* synchronous start of an exported function (up to its first await) or    *)
(* the arrival of one completion-client response together with every       *)
(* promise reaction and await continuation that it triggers.               *)
(***************************************************************************)
EXTENDS Integers, Sequences, FiniteSets, TLC

VARIABLES
    args,      \* the arguments of the running invocation (args.fn names the function)
    pc,        \* where the invocation stands: "start", an await point, or "done"
    calls,     \* every llmCall issued so far, in issue order, with its promise state
    locals,    \* the local variables of the running function
    outcome    \* the promise returned to the caller: pending, returned or threw

vars == <<args, pc, calls, locals, outcome>>

(***************************************************************************)
(* Bounds of the model.                                                    *)
(***************************************************************************)
MaxInputs == 3     \* longest inputs list handed to parallel

(***************************************************************************)
(* Characters and strings.                                                 *)
(***************************************************************************)
EmptyString == << >>

RECURSIVE Join(_, _)
\* Array.prototype.join: the elements of list separated by sep.
Join(list, sep) ==
    IF list = << >> THEN EmptyString
    ELSE IF Len(list) = 1 THEN list[1]
    ELSE list[1] \o sep \o Join(Tail(list), sep)

\* White space as String.prototype.trim sees it.
IsWhiteSpace(tok) == tok \in {" ", "\n", "\t"}

RECURSIVE TrimStart(_)
TrimStart(s) ==
    IF s # << >> /\ IsWhiteSpace(Head(s)) THEN TrimStart(Tail(s)) ELSE s

RECURSIVE TrimEnd(_)
TrimEnd(s) ==
    IF s # << >> /\ IsWhiteSpace(s[Len(s)])
    THEN TrimEnd(SubSeq(s, 1, Len(s) - 1))
    ELSE s

\* String.prototype.trim
trim(s) == TrimEnd(TrimStart(s))

\* String.prototype.toLowerCase on one token.
toLowerCaseToken(tok) ==
    CASE tok = "P" -> "p"
      [] tok = "A" -> "a"
      [] tok = "S" -> "s"
      [] tok = "E" -> "e"
      [] tok = "D" -> "d"
      [] tok = "T" -> "t"
      [] tok = "<T>" -> "<t>"
      [] tok = "</T>" -> "</t>"
      [] tok \in {"BILLING", "Billing"} -> "billing"
      [] tok \in {"TECHNICAL", "Technical"} -> "technical"
      [] tok = "CONSTRUCTOR" -> "constructor"
      [] tok = "toString" -> "tostring"
      [] tok = "FAIL" -> "fail"
      [] tok = "NEEDS_IMPROVEMENT" -> "needs_improvement"
      [] tok \in {"<SELECTION>", "<Selection>"} -> "<selection>"
      [] tok \in {"</SELECTION>", "</Selection>"} -> "</selection>"
      [] tok = "<Reasoning>" -> "<reasoning>"
      [] tok = "</Reasoning>" -> "</reasoning>"
      [] tok = "<EVALUATION>" -> "<evaluation>"
      [] tok = "</EVALUATION>" -> "</evaluation>"
      [] OTHER -> tok

\* String.prototype.toUpperCase on one token.
toUpperCaseToken(tok) ==
    CASE tok = "p" -> "P"
      [] tok = "a" -> "A"
      [] tok = "s" -> "S"
      [] tok = "e" -> "E"
      [] tok = "d" -> "D"
      [] tok = "t" -> "T"
      [] tok = "fail" -> "FAIL"
      [] tok = "needs_improvement" -> "NEEDS_IMPROVEMENT"
      [] OTHER -> tok

\* String.prototype.toLowerCase
toLowerCase(s) == [k \in 1..Len(s) |-> toLowerCaseToken(s[k])]

\* String.prototype.toUpperCase
toUpperCase(s) == [k \in 1..Len(s) |-> toUpperCaseToken(s[k])]

\* The least element of a non-empty set of integers.
Min(S) == CHOOSE x \in S : \A y \in S : x <= y

\* An extraction that falls back on the whole text when nothing matches.
extractXml_orText(text, tag) ==
    LET open == toLowerCaseToken("<" \o tag \o ">")
        close == toLowerCaseToken("</" \o tag \o ">")
        Closes(p) == {c \in (p + 2)..Len(text) : toLowerCaseToken(text[c]) = close}
        starts == {p \in 1..Len(text) :
                     toLowerCaseToken(text[p]) = open /\ Closes(p) # {}}
    IN IF starts = {} THEN trim(text)
       ELSE trim(SubSeq(text, Min(starts) + 1, Min(Closes(Min(starts))) - 1))

\* extractXml(text, tag), lines 66-74: the regular expression
\* <tag>(.+?)</tag> with the flags i and s.  The match starts at the leftmost
\* opening tag from which the pattern can match; its group is the shortest
\* run of at least one character that a closing tag follows.  The result is
\* the trimmed group, or "" when nothing matches.
extractXml(text, tag) ==
    LET open == toLowerCaseToken("<" \o tag \o ">")
        close == toLowerCaseToken("</" \o tag \o ">")
        Closes(p) == {c \in (p + 2)..Len(text) : toLowerCaseToken(text[c]) = close}
        starts == {p \in 1..Len(text) :
                     toLowerCaseToken(text[p]) = open /\ Closes(p) # {}}
    IN IF starts = {} THEN EmptyString
       ELSE LET p == Min(starts)
                c == Min(Closes(p))
            IN trim(SubSeq(text, p + 1, c - 1))

(***************************************************************************)
(* The completion client, llmCall.                                         *)
(*                                                                         *)
(* The provider answers a request with a raw result: a transport error,   *)
(* or a response whose first candidate text may be missing or empty.       *)
(***************************************************************************)
TransportError == [kind |-> "error", text |-> EmptyString]
Response(text) == [kind |-> "response", text |-> text]

\* An Error value: the call whose failure it is (0 when the function itself
\* threw it), its message, and the text the message quotes.
Error(call, message, detail) == [call |-> call, message |-> message, detail |-> detail]
NoError == Error(0, "", EmptyString)

\* A call that has been issued and whose promise is still pending.
PendingCall(prompt) ==
    [prompt |-> prompt, state |-> "pending", text |-> EmptyString,
     error |-> NoError, settled |-> 0]

\* llmCall up to its await: the request is sent; the promise is pending.
llmCallIssue(log, prompt) == Append(log, PendingCall(prompt))

\* How many calls of the log have settled.
SettledCount(log) == Cardinality({j \in 1..Len(log) : log[j].state # "pending"})

\* llmCall after its await, for call c and raw provider result raw: the text
\* when it is a non-empty string, otherwise the promise rejects (the thrown
\* Error for a missing or empty text, or the re-thrown transport error).
llmCallSettle(log, c, raw) ==
    LET n == SettledCount(log) + 1 IN
    IF raw.kind = "response" /\ raw.text # EmptyString
    THEN [log EXCEPT ![c] = [@ EXCEPT !.state = "resolved", !.text = raw.text,
                                      !.settled = n]]
    ELSE [log EXCEPT ![c] = [@ EXCEPT !.state = "rejected", !.settled = n,
             !.error = Error(c, IF raw.kind = "error"
                                THEN "transport error"
                                ELSE "Failed to get valid response text from the model.",
                             EmptyString)]]

\* The promise returned by an async function.
Pending == [kind |-> "pending", value |-> << >>, error |-> NoError]
Returned(v) == [kind |-> "returned", value |-> v, error |-> NoError]
Threw(e) == [kind |-> "threw", value |-> << >>, error |-> e]

(***************************************************************************)
(* parallel(prompt, inputs)                                                *)
(***************************************************************************)
ParallelPrompts == {<<"Analyze">>}
ParallelInputs == {<<"a">>, <<"b">>}
ParallelRaw ==
    {TransportError, Response(EmptyString), Response(<<"r1">>), Response(<<"r2">>)}

\* The invocation's state after a step: call log, locals, position, promise.
State(log, l, p, o) == [calls |-> log, locals |-> l, pc |-> p, outcome |-> o]

SeqsUpTo(S, n) == UNION {[1..k -> S] : k \in 0..n}

\* Promise.all's resolve-element function swaps the completion order
\* for the input order when it stores at the next free slot.
PromiseAllResolveElementPush(values, index, x) ==
    ((Cardinality(DOMAIN values) + 1) :> x) @@ values

\* Promise.all's resolve-element function for the promise at index: the value
\* is stored at the promise's own index.
PromiseAllResolveElement(values, index, x) == (index :> x) @@ values

\* A fan-in that waits for everything and keeps what succeeded.
PromiseAllKeepFulfilled(prev, log, c, values, n) ==
    IF prev.kind # "pending" THEN prev
    ELSE IF SettledCount(log) = n
         THEN Returned([k \in 1..Cardinality(DOMAIN values) |->
                          values[CHOOSE i \in DOMAIN values :
                                   Cardinality({j \in DOMAIN values : j < i}) = k - 1]])
         ELSE prev

\* A fan-in whose failure is replaced by every later failure.
PromiseAllLatestRejection(prev, log, c, values, n) ==
    IF log[c].state = "rejected" THEN Threw(log[c].error)
    ELSE IF prev.kind # "pending" THEN prev
    ELSE IF Cardinality(DOMAIN values) = n
         THEN Returned([k \in 1..n |-> values[k]])
         ELSE prev

\* Promise.all after one of its n promises has settled: prev is the state of
\* the aggregate promise before, log the promises after the settlement, c the
\* promise that settled and values the values stored so far.  The aggregate
\* rejects with the first rejection and resolves once all n values are in.
PromiseAll(prev, log, c, values, n) ==
    IF prev.kind # "pending" THEN prev
    ELSE IF log[c].state = "rejected" THEN Threw(log[c].error)
    ELSE IF Cardinality(DOMAIN values) = n
         THEN Returned([k \in 1..n |-> values[k]])
         ELSE prev

InitParallel ==
    /\ args \in {[fn |-> "parallel", prompt |-> p, inputs |-> ins] :
                   p \in ParallelPrompts, ins \in SeqsUpTo(ParallelInputs, MaxInputs)}
    /\ pc = "start"
    /\ calls = << >>
    /\ locals = [values |-> << >>]
    /\ outcome = Pending

\* A fan-out that issues the call of the first prompt only.
IssueFirst(log, prompts) ==
    IF prompts = << >> THEN log ELSE llmCallIssue(log, Head(prompts))

RECURSIVE IssueAll(_, _)
\* inputs.map(input => llmCall(...)): one call per prompt, in list order.
IssueAll(log, prompts) ==
    IF prompts = << >> THEN log
    ELSE IssueAll(llmCallIssue(log, Head(prompts)), Tail(prompts))

\* parallel, lines 128-132, up to the await: every call is issued, then
\* Promise.all is awaited; Promise.all of an empty list resolves at once.
parallel ==
    /\ pc = "start"
    /\ args.fn = "parallel"
    /\ calls' = IssueAll(calls,
                    [i \in 1..Len(args.inputs) |->
                        args.prompt \o <<"\n", "Input: ">> \o args.inputs[i]])
    /\ IF args.inputs = << >>
       THEN pc' = "done" /\ outcome' = Returned(<< >>)
       ELSE pc' = "await Promise.all" /\ outcome' = outcome
    /\ UNCHANGED <<args, locals>>

\* The provider answers call c of parallel: llmCall settles, Promise.all
\* takes the value or the rejection, and parallel resumes when Promise.all
\* has settled (return results, or the rejection propagates).
parallel_llmCallSettles(c, raw) ==
    /\ args.fn = "parallel"
    /\ c \in 1..Len(calls)
    /\ calls[c].state = "pending"
    /\ LET log == llmCallSettle(calls, c, raw)
           values == IF log[c].state = "resolved"
                     THEN PromiseAllResolveElement(locals.values, c, log[c].text)
                     ELSE locals.values
       IN /\ calls' = log
          /\ locals' = [locals EXCEPT !.values = values]
          /\ outcome' = PromiseAll(outcome, log, c, values, Len(args.inputs))
          /\ pc' = IF outcome'.kind = "pending" THEN pc ELSE "done"
    /\ UNCHANGED args

NextParallel ==
    \/ parallel
    \/ \E c \in 1..MaxInputs, raw \in ParallelRaw : parallel_llmCallSettles(c, raw)

SpecParallel == InitParallel /\ [][NextParallel]_vars


\* The text of the call that parallel issues for inputs[i].
ParallelPromptFor(i) == args.prompt \o <<"\n", "Input: ">> \o args.inputs[i]

\* C1: when every completion call of parallel has succeeded, parallel has
\* returned a list as long as inputs whose i-th element is the text returned
\* by the call issued for inputs[i], whatever the order of completion.
C1_ParallelResultsFollowInputOrder ==
    (/\ args.fn = "parallel"
     /\ pc # "start"
     /\ \A c \in 1..Len(calls) : calls[c].state = "resolved")
    => /\ outcome.kind = "returned"
       /\ Len(calls) = Len(args.inputs)
       /\ Len(outcome.value) = Len(args.inputs)
       /\ \A i \in 1..Len(args.inputs) :
            /\ calls[i].prompt = ParallelPromptFor(i)
            /\ outcome.value[i] = calls[i].text

\* C1 witness: three calls answered in reverse order with differing texts.
C1_Witness ==
    /\ args.fn = "parallel"
    /\ Len(args.inputs) = 3
    /\ outcome.kind = "returned"
    /\ calls[3].settled = 1 /\ calls[2].settled = 2 /\ calls[1].settled = 3
    /\ calls[1].text # calls[3].text

\* C2: as soon as one completion call of parallel has failed, parallel has
\* failed with the failure of a failed call and holds no result list; it
\* never returns a list, full or partial, once a call has failed.
C2_ParallelFailsWhenACallFails ==
    (/\ args.fn = "parallel"
     /\ \E c \in 1..Len(calls) : calls[c].state = "rejected")
    => /\ outcome.kind = "threw"
       /\ outcome.value = << >>
       /\ outcome.error.call \in 1..Len(calls)
       /\ calls[outcome.error.call].state = "rejected"
       /\ outcome.error = calls[outcome.error.call].error

\* C2 witness: one of three calls failed and the other two succeeded.
C2_Witness ==
    /\ args.fn = "parallel"
    /\ Len(args.inputs) = 3
    /\ outcome.kind = "threw"
    /\ Cardinality({c \in 1..3 : calls[c].state = "rejected"}) = 1
    /\ Cardinality({c \in 1..3 : calls[c].state = "resolved"}) = 2

(***************************************************************************)
(* chain(input, prompts)                                                   *)
(***************************************************************************)
MaxPrompts == 3    \* longest prompts list handed to chain

ChainInputs == {EmptyString, <<"in">>}
ChainPrompts == {<<"p1">>, <<"p2">>}
ChainRaw ==
    {TransportError, Response(EmptyString), Response(<<"r1">>), Response(<<"r2">>)}

InitChain ==
    /\ args \in {[fn |-> "chain", input |-> in, prompts |-> ps] :
                   in \in ChainInputs, ps \in SeqsUpTo(ChainPrompts, MaxPrompts)}
    /\ pc = "start"
    /\ calls = << >>
    /\ locals = [result |-> EmptyString, i |-> 0]
    /\ outcome = Pending

\* chain's for loop at its test with index i (0-based, as in the source) and
\* the current result: the next step's call is issued and awaited, or the
\* loop is over and result is returned.
chain_for(a, log, result, i) ==
    IF i < Len(a.prompts)
    THEN State(llmCallIssue(log, a.prompts[i + 1] \o <<"\n", "Input: ">> \o result),
               [result |-> result, i |-> i], "await llmCall", Pending)
    ELSE State(log, [result |-> result, i |-> i], "done", Returned(result))

\* The step's text is dropped and the old result is threaded on.
chain_resume_stale(a, log, l) ==
    LET c == Len(log) IN
    IF log[c].state = "rejected"
    THEN State(log, l, "done", Threw(log[c].error))
    ELSE chain_for(a, log, l.result, l.i + 1)

\* A failed step is issued again.
chain_resume_retry(a, log, l) ==
    LET c == Len(log) IN
    IF log[c].state = "rejected"
    THEN IF c <= Len(a.prompts) THEN chain_for(a, log, l.result, l.i)
         ELSE State(log, l, "done", Threw(log[c].error))
    ELSE chain_for(a, log, log[c].text, l.i + 1)

\* chain after the awaited call (the last of the log) has settled: a
\* rejection propagates out of chain; a text becomes result and the loop goes
\* to its next index.
chain_resume(a, log, l) ==
    LET c == Len(log) IN
    IF log[c].state = "rejected"
    THEN State(log, l, "done", Threw(log[c].error))
    ELSE chain_for(a, log, log[c].text, l.i + 1)

\* chain, lines 109-115, up to its first await (or to its return when there
\* is no prompt).
chain ==
    /\ pc = "start"
    /\ args.fn = "chain"
    /\ LET s == chain_for(args, calls, args.input, 0)
       IN /\ calls' = s.calls
          /\ locals' = s.locals
          /\ pc' = s.pc
          /\ outcome' = s.outcome
    /\ UNCHANGED args

\* The provider answers the call chain is waiting for.
chain_llmCallSettles(raw) ==
    /\ pc = "await llmCall"
    /\ args.fn = "chain"
    /\ LET s == chain_resume(args, llmCallSettle(calls, Len(calls), raw), locals)
       IN /\ calls' = s.calls
          /\ locals' = s.locals
          /\ pc' = s.pc
          /\ outcome' = s.outcome
    /\ UNCHANGED args

NextChain ==
    \/ chain
    \/ \E raw \in ChainRaw : chain_llmCallSettles(raw)

SpecChain == InitChain /\ [][NextChain]_vars

\* r_k of a chain run: the input for k = 0, the text of call k otherwise.
ChainR(k) == IF k = 0 THEN args.input ELSE calls[k].text

\* C3: chain issues its calls one at a time and in prompt order, call k only
\* after call k-1 has returned and with p_k ++ "\nInput: " ++ r_(k-1); when
\* all n calls have succeeded it has returned r_n (the input when n = 0),
\* and it returns only then.
C3_ChainThreadsResults ==
    args.fn = "chain" =>
    /\ Len(calls) <= Len(args.prompts)
    /\ \A k \in 1..Len(calls) :
         /\ calls[k].prompt = args.prompts[k] \o <<"\n", "Input: ">> \o ChainR(k - 1)
         /\ k < Len(calls) => calls[k].state = "resolved" /\ calls[k].settled = k
    /\ (/\ pc # "start"
        /\ Len(calls) = Len(args.prompts)
        /\ \A k \in 1..Len(calls) : calls[k].state = "resolved")
       => outcome = Returned(ChainR(Len(args.prompts)))
    /\ outcome.kind = "returned"
       => /\ Len(calls) = Len(args.prompts)
          /\ \A k \in 1..Len(calls) : calls[k].state = "resolved"
          /\ outcome.value = ChainR(Len(args.prompts))

\* C3 witness: a chain of three steps has returned, the steps' texts differing.
C3_Witness ==
    /\ args.fn = "chain"
    /\ Len(args.prompts) = 3
    /\ args.prompts[1] # args.prompts[2]
    /\ outcome.kind = "returned"
    /\ calls[1].text # calls[2].text
    /\ calls[2].text # calls[3].text

\* C4: when the call of step k has failed, chain has failed with that
\* failure, holds no result, has issued no call after call k, and call k is
\* the only call issued for step k.
C4_ChainFailsAtFirstFailedStep ==
    args.fn = "chain" =>
    \A k \in 1..Len(calls) :
        calls[k].state = "rejected" =>
            /\ outcome = Threw(calls[k].error)
            /\ outcome.error.call = k
            /\ pc = "done"
            /\ Len(calls) = k
            /\ \A j \in 1..(k - 1) : calls[j].state = "resolved"

\* C4 witness: the second of three steps failed after the first succeeded.
C4_Witness ==
    /\ args.fn = "chain"
    /\ Len(args.prompts) = 3
    /\ Len(calls) = 2
    /\ calls[1].state = "resolved"
    /\ calls[2].state = "rejected"
    /\ outcome.kind = "threw"

(***************************************************************************)
(* route(input, routes)                                                    *)
(*                                                                         *)
(* routes is a JavaScript object: its own entries in insertion order, and  *)
(* behind them the members every object inherits from Object.prototype.    *)
(***************************************************************************)
MaxRoutes == 2     \* most entries of a route table

\* JavaScript values that a property read of routes can give.
Undefined == [type |-> "undefined", str |-> <<"undefined">>]
JsString(s) == [type |-> "string", str |-> s]
JsFunction(name) ==
    [type |-> "function", str |-> <<"function ", name, "() { [native code] }">>]
JsObject == [type |-> "object", str |-> <<"[object Object]">>]

\* A read of an inherited member of a plain object, by property name.
ObjectPrototypeGet(key) ==
    IF key = <<"constructor">> THEN JsFunction("Object")
    ELSE IF key = <<"__proto__">> THEN JsObject
    ELSE IF key \in {<<"toString">>, <<"valueOf">>, <<"hasOwnProperty">>,
                     <<"isPrototypeOf">>, <<"propertyIsEnumerable">>,
                     <<"toLocaleString">>}
         THEN JsFunction(key[1])
    ELSE Undefined

\* Object.keys(routes)
ObjectKeys(routes) == [k \in 1..Len(routes) |-> routes[k].key]

\* Whether key is one of the entries the caller put in routes.
HasOwn(routes, key) == \E k \in 1..Len(routes) : routes[k].key = key

\* The prompt the caller put in routes under key.
OwnPrompt(routes, key) == routes[CHOOSE k \in 1..Len(routes) : routes[k].key = key].prompt

\* routes[key]: the own entry, or else what the prototype chain gives.
ObjectGet(routes, key) ==
    IF HasOwn(routes, key) THEN JsString(OwnPrompt(routes, key))
    ELSE ObjectPrototypeGet(key)

\* JavaScript truthiness, as the test !selectedPrompt uses it.
Truthy(v) ==
    \/ v.type \in {"function", "object"}
    \/ v.type = "string" /\ v.str # EmptyString

\* The selector prompt of lines 148-161.
selectorPrompt(routeKeys, input) ==
    trim(<<"\n",
           "Analyze the input and select the most appropriate support team from these options: ">>
         \o Join(routeKeys, <<", ">>)
         \o <<"\n",
              "First explain your reasoning, then provide your selection in this XML format:",
              "\n", "\n", "<reasoning>", "\n",
              "Brief explanation of why this ticket should be routed to a specific team.",
              "\n", "Consider key terms, user intent, and urgency level.",
              "\n", "</reasoning>", "\n", "\n", "<selection>", "\n",
              "The chosen team name", "\n", "</selection>", "\n", "\n",
              "Input:", " ">>
         \o input)

RouteKeys == {<<"billing">>, <<"technical">>}
RoutePrompts == {EmptyString, <<"P1">>, <<"P2">>}
RouteInputs == {<<"ticket">>}
RouteTables ==
    {t \in SeqsUpTo([key : RouteKeys, prompt : RoutePrompts], MaxRoutes) :
        \A j, k \in 1..Len(t) : t[j].key = t[k].key => j = k}

\* What the classifier may put between its selection tags.
Selections ==
    {<<"billing">>, <<"BILLING">>, <<"Billing">>, <<"technical">>,
     <<" ", "billing", "\n">>, <<"\n", "TECHNICAL", " ">>,
     <<" ">>, <<"billing", " ", "x">>, <<"x", " ", "technical">>,
     <<"unknown">>, <<"constructor">>, <<"CONSTRUCTOR">>, <<"__proto__">>,
     <<"toString">>}

\* The classifier's responses: a selection in its tags (in either letter
\* case), with or without a reasoning block before it and prose after it;
\* an empty selection tag; no selection tag; an unclosed one.
SelectorResponses ==
    {pre \o <<tags[1]>> \o sel \o <<tags[2]>> \o post :
        pre \in {EmptyString, <<"<reasoning>", "why", "</reasoning>", "\n">>},
        tags \in {<<"<selection>", "</selection>">>, <<"<SELECTION>", "</Selection>">>},
        sel \in Selections,
        post \in {EmptyString, <<"\n", "done">>}}
    \cup {<<"<selection>", "</selection>">>,
          <<"<reasoning>", "billing", "</reasoning>">>,
          <<"billing">>,
          <<"<selection>", "billing">>}

SelectorRaw == {TransportError, Response(EmptyString)} \cup {Response(t) : t \in SelectorResponses}
DispatchRaw ==
    {TransportError, Response(EmptyString), Response(<<"r1">>), Response(<<"r2">>)}

InitRoute ==
    /\ args \in {[fn |-> "route", input |-> in, routes |-> t] :
                   in \in RouteInputs, t \in RouteTables}
    /\ pc = "start"
    /\ calls = << >>
    /\ locals = [reasoning |-> EmptyString, routeKey |-> EmptyString,
                 selectedPrompt |-> Undefined]
    /\ outcome = Pending

\* route after the selector call (call 1) has settled, lines 164-185: a
\* rejection propagates; otherwise the selection is extracted, trimmed and
\* lowercased, looked up in routes, and either the unknown-route Error is
\* thrown or the dispatch call is issued.
route_resume(a, log, l) ==
    IF log[1].state = "rejected"
    THEN State(log, l, "done", Threw(log[1].error))
    ELSE LET reasoning == extractXml(log[1].text, "reasoning")
             routeKey == toLowerCase(trim(extractXml(log[1].text, "selection")))
             selectedPrompt == ObjectGet(a.routes, routeKey)
             l2 == [reasoning |-> reasoning, routeKey |-> routeKey,
                    selectedPrompt |-> selectedPrompt]
         IN IF ~Truthy(selectedPrompt)
            THEN State(log, l2, "done",
                       Threw(Error(0, "Selected route is invalid.", routeKey)))
            ELSE State(llmCallIssue(log, selectedPrompt.str \o <<"\n", "Input: ">> \o a.input),
                       l2, "await dispatch", Pending)

\* route, lines 143-164, up to the await of the selector call.
route ==
    /\ pc = "start"
    /\ args.fn = "route"
    /\ calls' = llmCallIssue(calls, selectorPrompt(ObjectKeys(args.routes), args.input))
    /\ pc' = "await selector"
    /\ UNCHANGED <<args, locals, outcome>>

\* The provider answers the selector call.
route_selectorSettles(raw) ==
    /\ pc = "await selector"
    /\ args.fn = "route"
    /\ LET s == route_resume(args, llmCallSettle(calls, 1, raw), locals)
       IN /\ calls' = s.calls
          /\ locals' = s.locals
          /\ pc' = s.pc
          /\ outcome' = s.outcome
    /\ UNCHANGED args

\* The provider answers the dispatch call, whose promise route returned
\* (line 185): route's promise settles as that call does.
route_dispatchSettles(raw) ==
    /\ pc = "await dispatch"
    /\ args.fn = "route"
    /\ calls' = llmCallSettle(calls, 2, raw)
    /\ outcome' = IF calls'[2].state = "resolved"
                  THEN Returned(calls'[2].text)
                  ELSE Threw(calls'[2].error)
    /\ pc' = "done"
    /\ UNCHANGED <<args, locals>>

NextRoute ==
    \/ route
    \/ \E raw \in SelectorRaw : route_selectorSettles(raw)
    \/ \E raw \in DispatchRaw : route_dispatchSettles(raw)

SpecRoute == InitRoute /\ [][NextRoute]_vars

\* The text between the first opening tag and the first closing tag after
\* it (tag names in any letter case); "" when there is no such pair.
TagContent(text, tag) ==
    LET opens == {p \in 1..Len(text) : toLowerCaseToken(text[p]) = "<" \o tag \o ">"}
    IN IF opens = {} THEN EmptyString
       ELSE LET p == Min(opens)
                closes == {c \in (p + 1)..Len(text) :
                             toLowerCaseToken(text[c]) = "</" \o tag \o ">"}
            IN IF closes = {} THEN EmptyString
               ELSE SubSeq(text, p + 1, Min(closes) - 1)

\* The classifier's selection, trimmed and lowercased.
NormalizedSelection == toLowerCase(trim(TagContent(calls[1].text, "selection")))

\* The selector call has returned the classifier's response.
SelectorAnswered ==
    args.fn = "route" /\ Len(calls) >= 1 /\ calls[1].state = "resolved"

UnknownRoute == Threw(Error(0, "Selected route is invalid.", NormalizedSelection))

\* C5: the route key is the trimmed, lowercased content of the selection
\* tag, and a selection that is a key of the table up to letter case and
\* surrounding white space dispatches to that key's prompt.
C5_RouteNormalizesSelection ==
    SelectorAnswered =>
        /\ locals.routeKey = NormalizedSelection
        /\ HasOwn(args.routes, NormalizedSelection) =>
              /\ Len(calls) = 2
              /\ calls[2].prompt = OwnPrompt(args.routes, NormalizedSelection)
                                     \o <<"\n", "Input: ">> \o args.input

\* C6: a normalized selection that is no own key of the table, whatever it
\* is, fails with the unknown-route error and issues no second call.
C6_RouteUnknownSelectionFails ==
    (SelectorAnswered /\ ~HasOwn(args.routes, NormalizedSelection)) =>
        /\ outcome = UnknownRoute
        /\ Len(calls) = 1

\* C7: a normalized selection that is a key of the table issues the second
\* call with that key's prompt, whatever the prompt text, never raises the
\* unknown-route error, and route returns what that call returns.
C7_RouteKnownSelectionDispatches ==
    (SelectorAnswered /\ HasOwn(args.routes, NormalizedSelection)) =>
        /\ outcome # UnknownRoute
        /\ Len(calls) = 2
        /\ calls[2].prompt = OwnPrompt(args.routes, NormalizedSelection)
                               \o <<"\n", "Input: ">> \o args.input
        /\ calls[2].state = "resolved" => outcome = Returned(calls[2].text)
        /\ calls[2].state = "rejected" => outcome = Threw(calls[2].error)

(***************************************************************************)
(* generate, evaluate and loop(task, evaluatorPrompt, generatorPrompt)     *)
(***************************************************************************)
MaxAnswers == 6    \* answers of the completion client that a run is followed through

\* generate's fullPrompt, lines 202-204: the context is put in when it is
\* a non-empty string.
generate_fullPrompt(prompt, task, context) ==
    IF context # EmptyString
    THEN prompt \o <<"\n">> \o context \o <<"\n", "Task: ">> \o task
    ELSE prompt \o <<"\n", "Task: ">> \o task

\* evaluate's fullPrompt, line 227.
evaluate_fullPrompt(prompt, content, task) ==
    prompt \o <<"\n", "Original task: ">> \o task
           \o <<"\n", "Content to evaluate: ">> \o content

\* An array that keeps only what was pushed last.
push_overwrite(array, x) == <<x>>

\* Array.prototype.push
push(array, x) == Append(array, x)

\* A context that shows the latest attempt only.
loop_context_latest(memory, feedback) ==
    Join(<< <<"Previous attempts:">>, <<"- ">> \o memory[Len(memory)],
            <<"\n", "Feedback: ">> \o feedback >>,
         <<"\n">>)

\* The feedback context of lines 274-278: a heading, one "- " line for each
\* candidate in memory, and the feedback of the evaluation just made.
loop_context(memory, feedback) ==
    Join(<< <<"Previous attempts:">> >>
         \o [k \in 1..Len(memory) |-> <<"- ">> \o memory[k]]
         \o << <<"\n", "Feedback: ">> \o feedback >>,
         <<"\n">>)

\* A verdict passes when it begins with PASS.
IsPassPrefix(evaluation) ==
    /\ Len(evaluation) >= 4
    /\ SubSeq(toUpperCase(evaluation), 1, 4) = <<"P", "A", "S", "S">>

\* The test of line 267: evaluation.toUpperCase() === "PASS".
IsPass(evaluation) == toUpperCase(evaluation) = <<"P", "A", "S", "S">>

LoopTasks == {<<"task">>}
EvaluatorPrompts == {<<"Evaluate">>}
GeneratorPrompts == {<<"Generate">>}

\* The generator's responses: both tags, the response tag alone, no tag.
GenerateResponses ==
    {<<"<thoughts>", "t1", "</thoughts>", "\n", "<response>", "c1", "</response>">>,
     <<"<response>", "\n", "c2", "\n", "</response>">>,
     <<"sorry">>}

\* What the evaluator may put between its evaluation tags.
Verdicts ==
    {<<"P", "A", "S", "S">>, <<"p", "a", "s", "s">>, <<"P", "a", "s", "s">>,
     <<" ", "P", "A", "S", "S", "\n">>,
     <<"P", "A", "S", "S", "E", "D">>, <<"P", "A", "S", "S", ".">>,
     <<"NEEDS_IMPROVEMENT">>, <<"FAIL">>, EmptyString}

\* The evaluator's responses: each verdict with a feedback, and responses
\* with another feedback and no evaluation tag, without any tag, and with
\* upper-case tags and no feedback.
EvaluateResponses ==
    {<<"<evaluation>">> \o v \o <<"</evaluation>", "\n", "<feedback>", "f1", "</feedback>">> :
        v \in Verdicts}
    \cup {<<"<feedback>", "f2", "</feedback>">>,
          <<"looks fine">>,
          <<"<EVALUATION>", "p", "a", "s", "s", "</EVALUATION>">>}

GenerateRaw == {TransportError, Response(EmptyString)} \cup {Response(t) : t \in GenerateResponses}
EvaluateRaw == {TransportError, Response(EmptyString)} \cup {Response(t) : t \in EvaluateResponses}

InitLoop ==
    /\ args \in {[fn |-> "loop", task |-> t, evaluatorPrompt |-> e, generatorPrompt |-> g] :
                   t \in LoopTasks, e \in EvaluatorPrompts, g \in GeneratorPrompts}
    /\ pc = "start"
    /\ calls = << >>
    /\ locals = [memory |-> << >>, chainOfThought |-> << >>,
                 thoughts |-> EmptyString, result |-> EmptyString,
                 evaluation |-> EmptyString, feedback |-> EmptyString]
    /\ outcome = Pending

\* A loop that has every evaluation judge the first candidate.
loop_afterGenerate_firstCandidate(a, log, l) ==
    LET c == Len(log) IN
    IF log[c].state = "rejected"
    THEN State(log, l, "done", Threw(log[c].error))
    ELSE LET thoughts == extractXml(log[c].text, "thoughts")
             result == extractXml(log[c].text, "response")
             l2 == [l EXCEPT !.thoughts = thoughts,
                             !.result = result,
                             !.memory = push(l.memory, result),
                             !.chainOfThought =
                                 push(l.chainOfThought,
                                      [thoughts |-> thoughts, result |-> result])]
         IN State(llmCallIssue(log, evaluate_fullPrompt(a.evaluatorPrompt,
                                                        l2.memory[1], a.task)),
                  l2, "await evaluate", Pending)

\* loop after the awaited generate call (the last of the log) has settled,
\* lines 206-215, 261-266 and 280-283: a rejection propagates; otherwise the
\* thoughts and the candidate are extracted and pushed, and evaluate issues
\* its call for the candidate.
loop_afterGenerate(a, log, l) ==
    LET c == Len(log) IN
    IF log[c].state = "rejected"
    THEN State(log, l, "done", Threw(log[c].error))
    ELSE LET thoughts == extractXml(log[c].text, "thoughts")
             result == extractXml(log[c].text, "response")
             l2 == [l EXCEPT !.thoughts = thoughts,
                             !.result = result,
                             !.memory = push(l.memory, result),
                             !.chainOfThought =
                                 push(l.chainOfThought,
                                      [thoughts |-> thoughts, result |-> result])]
         IN State(llmCallIssue(log, evaluate_fullPrompt(a.evaluatorPrompt, result, a.task)),
                  l2, "await evaluate", Pending)

\* A loop that answers a failed evaluation with what it has so far.
loop_afterEvaluate_partial(a, log, l) ==
    LET c == Len(log) IN
    IF log[c].state = "rejected"
    THEN State(log, l, "done", Returned(<<l.result, l.chainOfThought>>))
    ELSE LET evaluation == extractXml(log[c].text, "evaluation")
             feedback == extractXml(log[c].text, "feedback")
             l2 == [l EXCEPT !.evaluation = evaluation, !.feedback = feedback]
         IN IF IsPass(evaluation)
            THEN State(log, l2, "done", Returned(<<l.result, l.chainOfThought>>))
            ELSE State(llmCallIssue(log,
                           generate_fullPrompt(a.generatorPrompt, a.task,
                                               loop_context(l.memory, feedback))),
                       l2, "await generate", Pending)

\* A loop with a built-in limit: after two generations it returns what it
\* has, PASS or not.
loop_afterEvaluate_limited(a, log, l) ==
    LET c == Len(log) IN
    IF log[c].state = "rejected"
    THEN State(log, l, "done", Threw(log[c].error))
    ELSE LET evaluation == extractXml(log[c].text, "evaluation")
             feedback == extractXml(log[c].text, "feedback")
             l2 == [l EXCEPT !.evaluation = evaluation, !.feedback = feedback]
         IN IF IsPass(evaluation) \/ Len(l.memory) >= 2
            THEN State(log, l2, "done", Returned(<<l.result, l.chainOfThought>>))
            ELSE State(llmCallIssue(log,
                           generate_fullPrompt(a.generatorPrompt, a.task,
                                               loop_context(l.memory, feedback))),
                       l2, "await generate", Pending)

\* loop after the awaited evaluate call has settled, lines 228-237 and
\* 266-280: a rejection propagates; a PASS returns the candidate and the
\* history; anything else builds the context and generate issues its call.
loop_afterEvaluate(a, log, l) ==
    LET c == Len(log) IN
    IF log[c].state = "rejected"
    THEN State(log, l, "done", Threw(log[c].error))
    ELSE LET evaluation == extractXml(log[c].text, "evaluation")
             feedback == extractXml(log[c].text, "feedback")
             l2 == [l EXCEPT !.evaluation = evaluation, !.feedback = feedback]
         IN IF IsPass(evaluation)
            THEN State(log, l2, "done", Returned(<<l.result, l.chainOfThought>>))
            ELSE State(llmCallIssue(log,
                           generate_fullPrompt(a.generatorPrompt, a.task,
                                               loop_context(l.memory, feedback))),
                       l2, "await generate", Pending)

\* loop, lines 253-261, up to the await in the first generate.
loop ==
    /\ pc = "start"
    /\ args.fn = "loop"
    /\ calls' = llmCallIssue(calls,
                    generate_fullPrompt(args.generatorPrompt, args.task, EmptyString))
    /\ pc' = "await generate"
    /\ UNCHANGED <<args, locals, outcome>>

\* The provider answers the generate call.  A run is followed through
\* MaxAnswers answers of the provider, whatever they are; the call issued
\* after the last of them stays in flight.
loop_generateSettles(raw) ==
    /\ pc = "await generate"
    /\ args.fn = "loop"
    /\ SettledCount(calls) < MaxAnswers
    /\ LET s == loop_afterGenerate(args, llmCallSettle(calls, Len(calls), raw), locals)
       IN /\ calls' = s.calls
          /\ locals' = s.locals
          /\ pc' = s.pc
          /\ outcome' = s.outcome
    /\ UNCHANGED args

\* The provider answers the evaluate call, within the same MaxAnswers.
loop_evaluateSettles(raw) ==
    /\ pc = "await evaluate"
    /\ args.fn = "loop"
    /\ SettledCount(calls) < MaxAnswers
    /\ LET s == loop_afterEvaluate(args, llmCallSettle(calls, Len(calls), raw), locals)
       IN /\ calls' = s.calls
          /\ locals' = s.locals
          /\ pc' = s.pc
          /\ outcome' = s.outcome
    /\ UNCHANGED args

NextLoop ==
    \/ loop
    \/ \E raw \in GenerateRaw : loop_generateSettles(raw)
    \/ \E raw \in EvaluateRaw : loop_evaluateSettles(raw)

SpecLoop == InitLoop /\ [][NextLoop]_vars

\* In a loop run the calls alternate: call 2n-1 is generation n and call 2n
\* is the evaluation of its candidate.
GenerateCall(n) == 2 * n - 1
EvaluateCall(n) == 2 * n

\* The evaluations answered so far, and the generations answered so far.
EvaluationsDone ==
    {n \in 1..Len(calls) : EvaluateCall(n) <= Len(calls)
                           /\ calls[EvaluateCall(n)].state = "resolved"}
GenerationsDone ==
    {n \in 1..Len(calls) : GenerateCall(n) <= Len(calls)
                           /\ calls[GenerateCall(n)].state = "resolved"}

\* The verdict, the feedback, the thoughts and the candidate the model gave.
VerdictOf(n) == extractXml(calls[EvaluateCall(n)].text, "evaluation")
FeedbackOf(n) == extractXml(calls[EvaluateCall(n)].text, "feedback")
ThoughtsOf(n) == extractXml(calls[GenerateCall(n)].text, "thoughts")
CandidateOf(n) == extractXml(calls[GenerateCall(n)].text, "response")

\* Every spelling of PASS in upper and lower case.
PassSpellings ==
    {<<p, a, s1, s2>> : p \in {"P", "p"}, a \in {"A", "a"},
                        s1 \in {"S", "s"}, s2 \in {"S", "s"}}

\* C8: the loop has returned only when the last call is an evaluation whose
\* verdict is a spelling of PASS; an evaluation with such a verdict ends the
\* run at once, and after an evaluation with any other verdict the next
\* generation has been issued and the loop has not returned on it.
C8_LoopReturnsOnlyOnExactPass ==
    args.fn = "loop" =>
    /\ outcome.kind = "returned" =>
          /\ Len(calls) >= 2 /\ Len(calls) % 2 = 0
          /\ (Len(calls) \div 2) \in EvaluationsDone
          /\ VerdictOf(Len(calls) \div 2) \in PassSpellings
    /\ \A n \in EvaluationsDone :
          IF VerdictOf(n) \in PassSpellings
          THEN EvaluateCall(n) = Len(calls) /\ outcome.kind = "returned"
          ELSE /\ Len(calls) >= GenerateCall(n + 1)
               /\ SubSeq(calls[GenerateCall(n + 1)].prompt, 1, Len(args.generatorPrompt))
                     = args.generatorPrompt
               /\ Len(calls) = GenerateCall(n + 1) => outcome.kind # "returned"

\* C8 witness: PASSED, then "PASS.", then Pass, on which the loop returned.
C8_Witness ==
    /\ args.fn = "loop"
    /\ outcome.kind = "returned"
    /\ Len(calls) = 6
    /\ VerdictOf(1) = <<"P", "A", "S", "S", "E", "D">>
    /\ VerdictOf(2) = <<"P", "A", "S", "S", ".">>
    /\ VerdictOf(3) = <<"P", "a", "s", "s">>

\* The history as the generations answered so far give it.
HistoryOfGenerations ==
    [n \in 1..Cardinality(GenerationsDone) |->
        [thoughts |-> ThoughtsOf(n), result |-> CandidateOf(n)]]

\* The evaluations answered so far whose verdict is no spelling of PASS.
Rejections == {n \in EvaluationsDone : VerdictOf(n) \notin PassSpellings}

\* C9, in a state: the history holds one entry for each generation answered
\* so far, in attempt order; a returned loop gives that history, one entry
\* longer than the number of rejections, and the candidate of its last entry.
C9_HistoryMatchesGenerations ==
    args.fn = "loop" =>
    /\ locals.chainOfThought = HistoryOfGenerations
    /\ outcome.kind = "returned" =>
          /\ outcome.value[2] = HistoryOfGenerations
          /\ Len(outcome.value[2]) = Cardinality(Rejections) + 1
          /\ outcome.value[1] = CandidateOf(Cardinality(Rejections) + 1)
          /\ outcome.value[1] = outcome.value[2][Len(outcome.value[2])].result

\* C9, in a step: the history keeps every entry it has, unchanged, and grows
\* by one entry exactly when a generation is answered.
C9_HistoryStep ==
    LET old == locals.chainOfThought
        new == locals'.chainOfThought
        answered == Cardinality(GenerationsDone') - Cardinality(GenerationsDone)
    IN /\ Len(new) = Len(old) + answered
       /\ answered \in {0, 1}
       /\ SubSeq(new, 1, Len(old)) = old

\* C9: the history has one entry per generation completed so far, in attempt
\* order, never loses or changes an entry, and after k rejections and a PASS
\* the loop returns k+1 entries and the candidate of generation k+1.
C9_LoopHistoryGrowsByOnePerGeneration ==
    [](C9_HistoryMatchesGenerations) /\ [][C9_HistoryStep]_vars

\* C9 witness: two rejections then a PASS, three differing history entries.
C9_Witness ==
    /\ args.fn = "loop"
    /\ outcome.kind = "returned"
    /\ Cardinality(Rejections) = 2
    /\ Len(outcome.value[2]) = 3
    /\ outcome.value[2][1] # outcome.value[2][2]
    /\ outcome.value[2][2] # outcome.value[2][3]
    /\ outcome.value[2][1] # outcome.value[2][3]

RECURSIVE AttemptLines(_)
\* The "- candidate" lines of generations 1..m, each on a line of its own.
AttemptLines(m) ==
    IF m = 0 THEN EmptyString
    ELSE AttemptLines(m - 1) \o <<"\n", "- ">> \o CandidateOf(m)

\* The context that generation n (n >= 2) is to be called with: the
\* candidates of generations 1..n-1 and the feedback of evaluation n-1.
ContextFor(n) ==
    <<"Previous attempts:">> \o AttemptLines(n - 1)
        \o <<"\n", "\n", "Feedback: ">> \o FeedbackOf(n - 1)

\* C10: generation 1 is called with the generator prompt and the task alone;
\* generation n >= 2 is called with, between them, the candidates of
\* generations 1..n-1 in attempt order, each prefixed, and then the feedback
\* of evaluation n-1 and of no other evaluation.
C10_GenerationContext ==
    args.fn = "loop" =>
    \A n \in 1..Len(calls) :
        GenerateCall(n) <= Len(calls) =>
            calls[GenerateCall(n)].prompt =
                IF n = 1
                THEN args.generatorPrompt \o <<"\n", "Task: ">> \o args.task
                ELSE args.generatorPrompt \o <<"\n">> \o ContextFor(n)
                         \o <<"\n", "Task: ">> \o args.task

\* C10 witness: a third generation was issued after two differing candidates
\* and two differing feedbacks.
C10_Witness ==
    /\ args.fn = "loop"
    /\ Len(calls) >= GenerateCall(3)
    /\ CandidateOf(1) # CandidateOf(2)
    /\ CandidateOf(1) # EmptyString /\ CandidateOf(2) # EmptyString
    /\ FeedbackOf(1) # FeedbackOf(2)
    /\ FeedbackOf(1) # EmptyString /\ FeedbackOf(2) # EmptyString

(***************************************************************************)
(* Termination of loop.  The completion client answers the calls it is     *)
(* sent, so a step that is enabled is taken sooner or later.               *)
(***************************************************************************)
SpecLoopLive == SpecLoop /\ WF_vars(NextLoop)

\* No call of the run has failed, and no evaluation has said PASS.
NoFailureNoPass ==
    /\ \A c \in 1..Len(calls) : calls[c].state # "rejected"
    /\ \A n \in EvaluationsDone : VerdictOf(n) \notin PassSpellings

\* C11, first part, in a state: as long as no call has failed and no
\* evaluation has said PASS, the loop has not returned, however many attempts
\* it has made; it waits for exactly one call, the one issued last, which is
\* a generation after each rejection and an evaluation after each generation.
C11_RunsWhileNoPass ==
    (args.fn = "loop" /\ pc # "start" /\ NoFailureNoPass) =>
        /\ outcome.kind = "pending"
        /\ pc \in {"await generate", "await evaluate"}
        /\ calls[Len(calls)].state = "pending"
        /\ SettledCount(calls) = Len(calls) - 1
        /\ Len(calls) = Cardinality(GenerationsDone) + Cardinality(Rejections) + 1
        /\ Cardinality(GenerationsDone) \in
              {Cardinality(Rejections), Cardinality(Rejections) + 1}

\* C11, second part, in a state: the run is over, by a return or by a failed call.
C11_Over ==
    \/ outcome.kind = "returned"
    \/ \E c \in 1..Len(calls) : calls[c].state = "rejected"

\* C11, second part, in a state: an evaluation that said PASS, with no call
\* failed, has made the loop return.
C11_ReturnsOnPass ==
    ( /\ args.fn = "loop"
      /\ \A c \in 1..Len(calls) : calls[c].state # "rejected"
      /\ \E n \in EvaluationsDone : VerdictOf(n) \in PassSpellings )
    => outcome.kind = "returned"

\* The run has been given every answer that the model follows and is not
\* over: after that many answers without a failure and without a PASS the
\* loop has issued one more call and waits for it.
C11_StillRunning ==
    /\ SettledCount(calls) = MaxAnswers
    /\ NoFailureNoPass
    /\ outcome.kind = "pending"
    /\ Len(calls) = MaxAnswers + 1
    /\ calls[Len(calls)].state = "pending"

\* C11: the loop has no bound on attempts of its own: it never returns while
\* no call has failed and no verdict is PASS, and goes on issuing generate
\* and evaluate calls; when the evaluator comes to say PASS and no call
\* fails, the loop returns.  With a client that answers, every run comes to
\* a return or a failed call, or is still running, one more call issued,
\* after every answer that the model follows.
C11_LoopEndsOnlyByPassOrFailure ==
    /\ [](C11_RunsWhileNoPass)
    /\ [](C11_ReturnsOnPass)
    /\ <>(C11_Over \/ C11_StillRunning)

\* C11 witness: three evaluations have rejected, no call has failed, and the
\* loop has issued its fourth generate call and waits for it.
C11_Witness ==
    /\ args.fn = "loop"
    /\ NoFailureNoPass
    /\ Cardinality(Rejections) = 3
    /\ Len(locals.memory) = 3
    /\ Len(calls) = 7
    /\ pc = "await generate"
    /\ outcome.kind = "pending"

(***************************************************************************)
(* FlexibleOrchestrator: formatPrompt and process(task, context)           *)
(*                                                                         *)
(* An object literal is modelled as the sequence of its entries in         *)
(* insertion order.  A placeholder {name} is one token.                    *)
(***************************************************************************)
MaxTasks == 3      \* most <task> groups in a decomposition response

\* { ...base, ...more }: an entry of more replaces the value of the entry
\* of base with its key, in place, or is added at the end.
RECURSIVE ObjectSpread_baseWins(_, _)
\* A merge in which a key of base keeps its value: { ...more, ...base } in
\* the key order of { ...base, ...more }.
ObjectSpread_baseWins(base, more) ==
    IF more = << >> THEN base
    ELSE LET e == Head(more)
             at == {k \in 1..Len(base) : base[k].key = e.key}
         IN ObjectSpread_baseWins(IF at = {} THEN Append(base, e) ELSE base,
                                  Tail(more))

RECURSIVE ObjectSpread(_, _)
ObjectSpread(base, more) ==
    IF more = << >> THEN base
    ELSE LET e == Head(more)
             at == {k \in 1..Len(base) : base[k].key = e.key}
         IN ObjectSpread(IF at = {} THEN Append(base, e)
                         ELSE [base EXCEPT ![Min(at)] = e],
                         Tail(more))

\* The names that the texts of the model put between braces.
PlaceholderNames ==
    {"task", "original_task", "task_type", "task_description", "extra", "x"}

\* Whether a token matches the pattern of line 342, \{[^{}]+\}.
IsPlaceholder(tok) == \E n \in PlaceholderNames : tok = "{" \o n \o "}"

RECURSIVE Replacement(_, _)
\* The text String.prototype.replace puts in for a match: the replacement
\* string with $$ read as $ and $& as the matched text.
Replacement(value, matched) ==
    IF value = << >> THEN EmptyString
    ELSE (IF Head(value) = "$&" THEN <<matched>>
          ELSE IF Head(value) = "$$" THEN <<"$">>
          ELSE <<Head(value)>>)
         \o Replacement(Tail(value), matched)

RECURSIVE ReplaceAll(_, _, _)
\* formatted.replace(new RegExp(`\\{${key}\\}`, 'g'), value), line 338.
ReplaceAll(text, key, value) ==
    IF text = << >> THEN EmptyString
    ELSE (IF Head(text) = "{" \o key \o "}"
          THEN Replacement(value, Head(text))
          ELSE <<Head(text)>>)
         \o ReplaceAll(Tail(text), key, value)

RECURSIVE SubstituteAll(_, _)
\* The for-in loop of lines 334-339: one replace per key, in key order, each
\* on the text the keys before it have left.
SubstituteAll(formatted, kwargs) ==
    IF kwargs = << >> THEN formatted
    ELSE SubstituteAll(ReplaceAll(formatted, Head(kwargs).key, Head(kwargs).value),
                       Tail(kwargs))

\* formatted.match(/\{[^{}]+\}/g), line 342: the placeholders left, in order.
RemainingPlaceholders(formatted) == SelectSeq(formatted, IsPlaceholder)

\* A formatPrompt without the check of lines 342-346.
formatPrompt_unchecked(template, kwargs) ==
    [ok |-> TRUE, text |-> SubstituteAll(template, kwargs), error |-> NoError]

\* formatPrompt(template, kwargs), lines 332-349: the formatted text, or the
\* Error thrown when a placeholder is left in it.
formatPrompt(template, kwargs) ==
    LET formatted == SubstituteAll(template, kwargs)
        remaining == RemainingPlaceholders(formatted)
    IN IF remaining # << >>
       THEN [ok |-> FALSE, text |-> EmptyString,
             error |-> Error(0, "Missing required prompt variable(s)",
                             Join([k \in 1..Len(remaining) |-> <<remaining[k]>>],
                                  <<", ">>))]
       ELSE [ok |-> TRUE, text |-> formatted, error |-> NoError]

\* The index of the first token at or after i that is not white space
\* (Len(text) + 1 when there is none): what \s* skips.
RECURSIVE SkipWhiteSpace(_, _)
SkipWhiteSpace(text, i) ==
    IF i <= Len(text) /\ IsWhiteSpace(text[i]) THEN SkipWhiteSpace(text, i + 1) ELSE i

\* Whether the token at i is the tag, in any letter case.
TagAt(text, i, tag) == i >= 1 /\ i <= Len(text) /\ toLowerCaseToken(text[i]) = tag

\* Where the second group of taskRegex can end when <description> stands at
\* d: before a </description> that \s*</task> follows.
DescriptionEnds(text, d) ==
    {f \in (d + 1)..Len(text) :
        TagAt(text, f, "</description>")
        /\ TagAt(text, SkipWhiteSpace(text, f + 1), "</task>")}

\* Where the first group of taskRegex can end when <type> stands at t:
\* before a </type> that \s*<description> and the rest of the pattern follow.
TypeEnds(text, t) ==
    {e \in (t + 1)..Len(text) :
        /\ TagAt(text, e, "</type>")
        /\ TagAt(text, SkipWhiteSpace(text, e + 1), "<description>")
        /\ DescriptionEnds(text, SkipWhiteSpace(text, e + 1)) # {}}

\* The match of taskRegex with <type> at t, </type> at e, <description> at
\* d and </description> at f: its two groups and the place of its last token.
TaskMatch(text, t, e, d, f) ==
    [found |-> TRUE,
     type |-> SubSeq(text, t + 1, e - 1),
     description |-> SubSeq(text, d + 1, f - 1),
     end |-> SkipWhiteSpace(text, f + 1)]

NoTaskMatch == [found |-> FALSE, type |-> EmptyString, description |-> EmptyString,
                end |-> 0]

\* Each group of a match is the shortest text for which the rest of the
\* pattern matches (the groups are lazy).
TaskMatchDescription(text, t, e, d) ==
    TaskMatch(text, t, e, d, Min(DescriptionEnds(text, d)))

TaskMatchType(text, t, e) ==
    TaskMatchDescription(text, t, e, SkipWhiteSpace(text, e + 1))

TaskMatchFrom(text, p, t, ends) ==
    IF TagAt(text, p, "<task>") /\ TagAt(text, t, "<type>") /\ ends # {}
    THEN TaskMatchType(text, t, Min(ends))
    ELSE NoTaskMatch

\* One match of taskRegex (line 382) that starts at p, if there is one:
\* <task>\s*<type>(.*?)</type>\s*<description>(.*?)</description>\s*</task>
\* with the flags g, i and s.
TaskMatchAt(text, p) ==
    TaskMatchFrom(text, p, SkipWhiteSpace(text, p + 1),
                  TypeEnds(text, SkipWhiteSpace(text, p + 1)))

RECURSIVE parseSubTasks(_, _)
\* The body of the exec loop, lines 388-393, for the match mt, and the
\* matches after it: the match is pushed when both groups are non-empty.
process_pushMatch(tasksXml, mt) ==
    (IF mt.type # EmptyString /\ mt.description # EmptyString
     THEN <<[type |-> trim(mt.type), description |-> trim(mt.description)]>>
     ELSE << >>)
    \o parseSubTasks(tasksXml, mt.end + 1)

\* taskRegex.exec: the leftmost of the matches that start in starts.
process_exec(tasksXml, starts) ==
    IF starts = {} THEN << >>
    ELSE process_pushMatch(tasksXml, TaskMatchAt(tasksXml, Min(starts)))

\* The exec loop of lines 385-394 from position from on.
parseSubTasks(tasksXml, from) ==
    process_exec(tasksXml,
                 {p \in from..Len(tasksXml) : TaskMatchAt(tasksXml, p).found})

\* The second task is a replacement pattern of String.prototype.replace.
ProcessTasks == {<<"T">>, <<"$&">>}

\* Prompt templates and the context given with them: the names of the
\* model's placeholders are task and extra in the orchestrator template, and
\* original_task, task_type, task_description and extra in the worker's.
OrchestratorTemplate == <<"Plan: ", "{task}">>
OrchestratorTemplateExtra == <<"Plan: ", "{task}", " with ", "{extra}">>
WorkerTemplate ==
    <<"Do ", "{task_type}", ": ", "{task_description}", " for ", "{original_task}">>
WorkerTemplateExtra == WorkerTemplate \o <<" with ", "{extra}">>
NoContext == << >>
ExtraContext == <<[key |-> "extra", value |-> <<"E">>]>>
\* Contexts that hold keys the code fills itself.
TaskContext == <<[key |-> "task", value |-> <<"CT">>],
                 [key |-> "task_type", value |-> <<"ctype">>]>>
WorkerContext == <<[key |-> "original_task", value |-> <<"OT">>],
                   [key |-> "task_description", value |-> <<"cd">>]>>

ProcessSetups ==
    {[orchestratorPrompt |-> OrchestratorTemplate, workerPrompt |-> WorkerTemplate,
      context |-> NoContext],
     [orchestratorPrompt |-> OrchestratorTemplate, workerPrompt |-> WorkerTemplateExtra,
      context |-> NoContext],
     [orchestratorPrompt |-> OrchestratorTemplateExtra, workerPrompt |-> WorkerTemplate,
      context |-> NoContext],
     [orchestratorPrompt |-> OrchestratorTemplateExtra,
      workerPrompt |-> WorkerTemplateExtra, context |-> ExtraContext],
     [orchestratorPrompt |-> OrchestratorTemplate, workerPrompt |-> WorkerTemplate,
      context |-> TaskContext],
     [orchestratorPrompt |-> OrchestratorTemplate, workerPrompt |-> WorkerTemplate,
      context |-> WorkerContext]}

\* The <task> groups a decomposition response is made of: well-formed ones
\* (one with white space around its parts, one whose description holds a
\* brace token), one without a description and one without a type.
TaskGroups ==
    {<<"<task>", "<type>", "formal", "</type>",
       "<description>", "dA", "</description>", "</task>">>,
     <<"<task>", "\n", "<type>", " ", "casual", " ", "</type>", "\n",
       "<description>", "dB", "</description>", "\n", "</task>">>,
     <<"<task>", "<type>", "braces", "</type>",
       "<description>", "use ", "{x}", "</description>", "</task>">>,
     <<"<task>", "<type>", "broken", "</type>", "</task>">>,
     <<"<task>", "<description>", "dM", "</description>", "</task>">>}

\* A decomposition response: an analysis, then the groups inside <tasks>.
Decomposition(groups) ==
    <<"<analysis>", "an", "</analysis>", "\n", "<tasks>", "\n">>
    \o Join(groups, <<"\n">>) \o <<"\n", "</tasks>">>

OrchestratorRaw ==
    {TransportError, Response(<<"no tags">>),
     Response(<<"<analysis>", "an", "</analysis>", "<tasks>", "</tasks>">>),
     Response(<<"<tasks>", "<task>", "<type>", "formal", "</type>",
                "<description>", "dA", "</description>", "</task>", "</tasks>">>)}
    \cup {Response(Decomposition(g)) : g \in SeqsUpTo(TaskGroups, MaxTasks)}

WorkerRaw ==
    {TransportError, Response(<<"<response>", "w1", "</response>">>),
     Response(<<"w2">>)}

InitProcess ==
    /\ args \in {[fn |-> "process", task |-> t, context |-> s.context,
                  orchestratorPrompt |-> s.orchestratorPrompt,
                  workerPrompt |-> s.workerPrompt] :
                   t \in ProcessTasks, s \in ProcessSetups}
    /\ pc = "start"
    /\ calls = << >>
    /\ locals = [analysis |-> EmptyString, subTasks |-> << >>, workers |-> << >>,
                 values |-> << >>]
    /\ outcome = Pending

\* process, lines 359-367, up to its first await: the decomposition prompt is
\* formatted and its call issued; an Error thrown by formatPrompt rejects the
\* promise of process.
process_start(a, log, l) ==
    LET orchestratorInput ==
            formatPrompt(a.orchestratorPrompt,
                         ObjectSpread(<<[key |-> "task", value |-> a.task]>>, a.context))
    IN IF orchestratorInput.ok
       THEN State(llmCallIssue(log, orchestratorInput.text), l,
                  "await orchestrator", Pending)
       ELSE State(log, l, "done", Threw(orchestratorInput.error))

\* How many worker promises have settled.
WorkersSettled(workers) ==
    Cardinality({k \in 1..Len(workers) : workers[k].state # "pending"})

\* The sub-task's values for the worker template, lines 402-407.
WorkerKwargs(a, taskInfo) ==
    ObjectSpread(<<[key |-> "original_task", value |-> a.task],
                   [key |-> "task_type", value |-> taskInfo.type],
                   [key |-> "task_description", value |-> taskInfo.description]>>,
                 a.context)

\* The callback of one sub-task up to its await, lines 401-409: its call is
\* issued, or the Error thrown by formatPrompt rejects its promise.
process_worker(log, workers, workerInput) ==
    IF workerInput.ok
    THEN [calls |-> llmCallIssue(log, workerInput.text),
          workers |-> Append(workers, [call |-> Len(log) + 1, state |-> "pending",
                                       error |-> NoError, order |-> 0])]
    ELSE [calls |-> log,
          workers |-> Append(workers, [call |-> 0, state |-> "rejected",
                                       error |-> workerInput.error,
                                       order |-> WorkersSettled(workers) + 1])]

RECURSIVE process_map_untilThrow(_, _, _, _)
\* A dispatch in a plain loop, which the first callback that throws ends.
process_map_untilThrow(a, subTasks, i, started) ==
    IF i > Len(subTasks) \/ WorkersSettled(started.workers) > 0 THEN started
    ELSE process_map_untilThrow(a, subTasks, i + 1,
             process_worker(started.calls, started.workers,
                 formatPrompt(a.workerPrompt, WorkerKwargs(a, subTasks[i]))))

RECURSIVE process_map(_, _, _, _)
\* subTasks.map(async taskInfo => ...), lines 401-419, from sub-task i on:
\* every callback runs up to its await, in list order; a callback that
\* throws does not stop the map.
process_map(a, subTasks, i, started) ==
    IF i > Len(subTasks) THEN started
    ELSE process_map(a, subTasks, i + 1,
             process_worker(started.calls, started.workers,
                 formatPrompt(a.workerPrompt, WorkerKwargs(a, subTasks[i]))))

\* A fan-in that stays pending until some promise settles, also when
\* there is none.
process_PromiseAll_waits(analysis, workers, rejected) ==
    IF rejected # {} THEN Threw(workers[Min(rejected)].error) ELSE Pending

\* Promise.all(workerPromises) at the moment process awaits it, line 422:
\* resolved when there is no promise, rejected by the callback of lowest
\* index among those that have thrown, pending otherwise.
process_PromiseAll(analysis, workers, rejected) ==
    IF workers = << >>
    THEN Returned([analysis |-> analysis, worker_results |-> << >>])
    ELSE IF rejected # {} THEN Threw(workers[Min(rejected)].error)
    ELSE Pending

\* The state in which process waits, or has ended, with outcome o.
process_await(log, l, o) ==
    State(log, l, IF o.kind = "pending" THEN "await Promise.all" ELSE "done", o)

process_dispatch(l, analysis, subTasks, started) ==
    process_await(started.calls,
        [l EXCEPT !.analysis = analysis, !.subTasks = subTasks,
                  !.workers = started.workers],
        process_PromiseAll(analysis, started.workers,
            {k \in 1..Len(started.workers) : started.workers[k].state = "rejected"}))

process_parsed(a, log, l, analysis, subTasks) ==
    process_dispatch(l, analysis, subTasks,
        process_map(a, subTasks, 1, [calls |-> log, workers |-> << >>]))

\* process resumed with the decomposition response (the text of call 1 in
\* log), lines 370-422: analysis and sub-tasks are parsed, every worker
\* callback runs up to its await, and Promise.all is awaited.
process_afterOrchestrator(a, log, l) ==
    process_parsed(a, log, l, extractXml(log[1].text, "analysis"),
                   parseSubTasks(extractXml(log[1].text, "tasks"), 1))

\* The promise of worker i after its call c has settled in log.
process_workerSettled(workers, i, log, c) ==
    [workers EXCEPT ![i] = [@ EXCEPT !.state = log[c].state, !.error = log[c].error,
                                     !.order = WorkersSettled(workers) + 1]]

\* The WorkerResult that the callback of worker i returns, lines 410-418.
WorkerResult(taskInfo, workerResponse) ==
    [type |-> taskInfo.type, description |-> taskInfo.description,
     result |-> extractXml(workerResponse, "response")]

\* What process makes of Promise.all's outcome all, lines 422-427.
process_return(l, prev, all) ==
    IF prev.kind = "pending" /\ all.kind = "returned"
    THEN Returned([analysis |-> l.analysis, worker_results |-> all.value])
    ELSE all

process_collect(log, l, i, prev, workers, values) ==
    process_await(log, [l EXCEPT !.workers = workers, !.values = values],
        process_return(l, prev, PromiseAll(prev, workers, i, values, Len(workers))))

\* The callback of worker i resumed after its call c has settled in log,
\* lines 409-418, and Promise.all and process after it, lines 422-427.
process_afterWorker(a, log, l, i, prev) ==
    process_collect(log, l, i, prev,
        process_workerSettled(l.workers, i, log, l.workers[i].call),
        IF log[l.workers[i].call].state = "resolved"
        THEN PromiseAllResolveElement(l.values, i,
                 WorkerResult(l.subTasks[i], log[l.workers[i].call].text))
        ELSE l.values)

\* The invocation takes the state s.
Becomes(s) ==
    calls' = s.calls /\ locals' = s.locals /\ pc' = s.pc /\ outcome' = s.outcome

process ==
    /\ pc = "start"
    /\ args.fn = "process"
    /\ Becomes(process_start(args, calls, locals))
    /\ UNCHANGED args

\* process after the decomposition call has settled in log: it resumes, or
\* the rejection propagates.
process_resume(a, log, l) ==
    IF log[1].state = "rejected"
    THEN State(log, l, "done", Threw(log[1].error))
    ELSE process_afterOrchestrator(a, log, l)

\* The provider answers the decomposition call.
process_orchestratorSettles(raw) ==
    /\ args.fn = "process"
    /\ pc = "await orchestrator"
    /\ Becomes(process_resume(args, llmCallSettle(calls, 1, raw), locals))
    /\ UNCHANGED args

\* The provider answers the call of worker i.
process_workerSettles(i, raw) ==
    /\ args.fn = "process"
    /\ i \in 1..Len(locals.workers)
    /\ locals.workers[i].state = "pending"
    /\ Becomes(process_afterWorker(args,
                   llmCallSettle(calls, locals.workers[i].call, raw),
                   locals, i, outcome))
    /\ UNCHANGED args

NextProcess ==
    \/ process
    \/ \E raw \in OrchestratorRaw : process_orchestratorSettles(raw)
    \/ \E i \in 1..MaxTasks, raw \in WorkerRaw : process_workerSettles(i, raw)

SpecProcess == InitProcess /\ [][NextProcess]_vars


\* The decomposition call has returned the orchestrator's response and
\* process has resumed with it.
OrchestratorAnswered ==
    args.fn = "process" /\ Len(calls) >= 1 /\ calls[1].state = "resolved"

\* The tokens of a group between the opening and the closing tag named tag.
GroupPart(group, tag) ==
    LET open == CHOOSE k \in 1..Len(group) : group[k] = "<" \o tag \o ">"
        close == CHOOSE k \in 1..Len(group) : group[k] = "</" \o tag \o ">"
    IN trim(SubSeq(group, open + 1, close - 1))

\* A group is well-formed when it has both sub-tags.
HasSubTag(group, tag) == \E k \in 1..Len(group) : group[k] = "<" \o tag \o ">"
IsWellFormed(group) == HasSubTag(group, "type") /\ HasSubTag(group, "description")

\* The SubTasks a list of groups stands for: its well-formed groups, in
\* order, each with its own type and description.
WellFormedSubTasks(groups) ==
    LET own == [k \in 1..Len(groups) |->
                  IF IsWellFormed(groups[k])
                  THEN <<[type |-> GroupPart(groups[k], "type"),
                          description |-> GroupPart(groups[k], "description")]>>
                  ELSE << >>]
    IN Join(own, << >>)

\* C12: whatever well-formed and malformed groups the tasks block is made
\* of, and wherever they stand, the parsed SubTask list is exactly the
\* well-formed groups in order of appearance, each with its own type and
\* description.
C12_ParseKeepsWellFormedGroups ==
    \A groups \in SeqsUpTo(TaskGroups, MaxTasks) :
        (OrchestratorAnswered /\ calls[1].text = Decomposition(groups)) =>
            locals.subTasks = WellFormedSubTasks(groups)


\* The value that fills the placeholder name: the context's value for the
\* key name when the context has that key, else the built-in value.
ContextHas(name) == \E k \in 1..Len(args.context) : args.context[k].key = name
ContextValue(name) ==
    args.context[CHOOSE k \in 1..Len(args.context) : args.context[k].key = name].value
FillOf(name, builtin) == IF ContextHas(name) THEN ContextValue(name) ELSE builtin

\* The text that the worker template of the invocation becomes for SubTask i.
WorkerPromptFor(i) ==
    <<"Do ">> \o FillOf("task_type", locals.subTasks[i].type)
    \o <<": ">> \o FillOf("task_description", locals.subTasks[i].description)
    \o <<" for ">> \o FillOf("original_task", args.task)
    \o (IF args.workerPrompt = WorkerTemplateExtra
        THEN <<" with ">> \o FillOf("extra", <<"{extra}">>)
        ELSE << >>)

\* One worker call has been issued for every SubTask, and every call of the
\* invocation has succeeded.
ProcessAllSucceeded ==
    /\ OrchestratorAnswered
    /\ Len(calls) = 1 + Len(locals.subTasks)
    /\ \A c \in 1..Len(calls) : calls[c].state = "resolved"

\* C13: when all calls have succeeded, process has returned worker_results
\* with one entry per parsed SubTask, in SubTask order, entry i carrying the
\* type and description of SubTask i and the response-tag content of the
\* call issued for SubTask i, whatever the order in which the calls completed.
C13_WorkerResultsFollowSubTaskOrder ==
    ProcessAllSucceeded =>
        /\ outcome.kind = "returned"
        /\ Len(outcome.value.worker_results) = Len(locals.subTasks)
        /\ \A i \in 1..Len(locals.subTasks) :
             /\ calls[i + 1].prompt = WorkerPromptFor(i)
             /\ outcome.value.worker_results[i] =
                  [type |-> locals.subTasks[i].type,
                   description |-> locals.subTasks[i].description,
                   result |-> trim(TagContent(calls[i + 1].text, "response"))]

\* C13 witness: three workers answered in reverse order, the first and the
\* last with different results.
C13_Witness ==
    /\ ProcessAllSucceeded
    /\ Len(locals.subTasks) = 3
    /\ outcome.kind = "returned"
    /\ locals.workers[3].order = 1
    /\ locals.workers[2].order = 2
    /\ locals.workers[1].order = 3
    /\ outcome.value.worker_results[1].result # outcome.value.worker_results[3].result
    /\ outcome.value.worker_results[1].type # outcome.value.worker_results[3].type

\* The failure of a worker call that has failed.
WorkerCallFailed(c) == c \in 2..Len(calls) /\ calls[c].state = "rejected"

\* C14: once a worker call has failed, process has failed: it holds no
\* OrchestratorOutput, neither the analysis nor any worker's result, and it
\* never returns one afterwards.
C14_ProcessFailsWhenAWorkerFails ==
    (args.fn = "process" /\ \E c \in 1..Len(calls) : WorkerCallFailed(c)) =>
        /\ outcome.kind = "threw"
        /\ outcome.value = << >>

\* C14 witness: of three workers two have succeeded and one has failed, and
\* the analysis was not empty.
C14_Witness ==
    /\ args.fn = "process"
    /\ Len(locals.workers) = 3
    /\ Len(calls) = 4
    /\ locals.analysis # EmptyString
    /\ Cardinality({c \in 2..4 : calls[c].state = "resolved"}) = 2
    /\ Cardinality({c \in 2..4 : calls[c].state = "rejected"}) = 1
    /\ outcome.kind = "threw"


\* The {name} tokens that substitution into the orchestrator template, and
\* into the worker template for SubTask i, leaves unfilled.
OrchestratorUnfilled ==
    RemainingPlaceholders(SubstituteAll(args.orchestratorPrompt,
        ObjectSpread(<<[key |-> "task", value |-> args.task]>>, args.context)))
WorkerUnfilled(i) ==
    RemainingPlaceholders(SubstituteAll(args.workerPrompt,
        WorkerKwargs(args, locals.subTasks[i])))

\* The missing-variable error that names the tokens of remaining.
MissingVariable(remaining) ==
    Error(0, "Missing required prompt variable(s)",
          Join([k \in 1..Len(remaining) |-> <<remaining[k]>>], <<", ">>))

\* The SubTasks for which substitution leaves a token unfilled.
UnfilledWorkers ==
    {i \in 1..Len(locals.subTasks) : WorkerUnfilled(i) # << >>}

\* C15: when substitution into the orchestrator template leaves a token
\* unfilled, process has failed with the missing-variable error naming it
\* and no call has been issued; when substitution into the worker template
\* leaves a token unfilled for some SubTask, process has failed with the
\* missing-variable error naming the token (of the first such SubTask) and
\* no worker call has been issued.
C15_UnfilledPlaceholderFailsBeforeAnyCall ==
    /\ (args.fn = "process" /\ pc # "start" /\ OrchestratorUnfilled # << >>) =>
          /\ outcome = Threw(MissingVariable(OrchestratorUnfilled))
          /\ calls = << >>
    /\ (OrchestratorAnswered /\ UnfilledWorkers # {}) =>
          /\ outcome = Threw(MissingVariable(WorkerUnfilled(Min(UnfilledWorkers))))
          /\ Len(calls) = 1


\* The tokens of a text.
Tokens(text) == {text[k] : k \in 1..Len(text)}

\* C16: no prompt that process has sent to the completion client, the
\* orchestrator prompt or a worker prompt, holds a {name} token.
C16_NoPlaceholderIsSent ==
    args.fn = "process" =>
        \A c \in 1..Len(calls) : \A tok \in Tokens(calls[c].prompt) : ~IsPlaceholder(tok)

\* C16 witness: both templates had all their tokens filled, {extra} from
\* the context, and the prompt of a SubTask whose description holds a brace
\* token was refused while the prompt of another was sent.
C16_Witness ==
    /\ args.fn = "process"
    /\ args.workerPrompt = WorkerTemplateExtra
    /\ args.context = ExtraContext
    /\ Len(calls) = 3
    /\ Len(locals.subTasks) = 3
    /\ "E" \in Tokens(calls[1].prompt)
    /\ "E" \in Tokens(calls[3].prompt)
    /\ \E i \in 1..3 : "{x}" \in Tokens(locals.subTasks[i].description)


\* C17: when the decomposition response yields no SubTask (no tasks tag, an
\* empty one, or one without a well-formed group), process has returned the
\* analysis with an empty worker_results list and has issued the
\* decomposition call and no other.
C17_NoSubTaskReturnsEmptyResults ==
    (OrchestratorAnswered /\ locals.subTasks = << >>) =>
        /\ outcome = Returned([analysis |-> trim(TagContent(calls[1].text, "analysis")),
                               worker_results |-> << >>])
        /\ Len(calls) = 1

\* C17 witness: the tasks tag holds two groups, one without a type and one
\* without a description, and the analysis is not empty.
C17_Witness ==
    /\ OrchestratorAnswered
    /\ \E g1, g2 \in TaskGroups :
          /\ ~HasSubTag(g1, "type")
          /\ ~HasSubTag(g2, "description")
          /\ calls[1].text = Decomposition(<<g1, g2>>)
    /\ locals.subTasks = << >>
    /\ outcome.kind = "returned"
    /\ outcome.value.analysis = <<"an">>


(***************************************************************************)
(* extractXml(text, tag) on its own                                        *)
(***************************************************************************)
MaxText == 4       \* longest text, in tokens, handed to extractXml

ExtractTokens == {"<t>", "</t>", "<T>", "</T>", "x", " ", "\n"}
ExtractTags == {"t", "T"}

InitExtract ==
    /\ args \in {[fn |-> "extractXml", text |-> t, tag |-> g] :
                   t \in SeqsUpTo(ExtractTokens, MaxText), g \in ExtractTags}
    /\ pc = "start"
    /\ calls = << >>
    /\ locals = << >>
    /\ outcome = Pending

\* extractXml is called and returns, lines 66-74.
extractXml_returns ==
    /\ pc = "start"
    /\ args.fn = "extractXml"
    /\ pc' = "done"
    /\ outcome' = Returned(extractXml(args.text, args.tag))
    /\ UNCHANGED <<args, calls, locals>>

NextExtract == extractXml_returns

SpecExtract == InitExtract /\ [][NextExtract]_vars

\* C18: extractXml returns the trimmed text between the first opening tag
\* and the first closing tag after it, the tag name in any letter case and
\* the text on any number of lines; in particular "" when the first pair
\* encloses nothing, whatever follows.
C18_ExtractXmlEndsAtFirstClosingTag ==
    (args.fn = "extractXml" /\ pc = "done") =>
        outcome = Returned(trim(TagContent(args.text, toLowerCaseToken(args.tag))))


(***************************************************************************)
(* generate(prompt, task, context) and evaluate(prompt, content, task) on  *)
(* their own, and every function that reads a tag                          *)
(***************************************************************************)
GenerateContexts == {EmptyString, <<"Previous attempts:">>}
EvaluateContents == {EmptyString, <<"c1">>}

InitGenerate ==
    /\ args \in {[fn |-> "generate", prompt |-> p, task |-> t, context |-> c] :
                   p \in GeneratorPrompts, t \in LoopTasks, c \in GenerateContexts}
    /\ pc = "start"
    /\ calls = << >>
    /\ locals = << >>
    /\ outcome = Pending

InitEvaluate ==
    /\ args \in {[fn |-> "evaluate", prompt |-> p, content |-> c, task |-> t] :
                   p \in EvaluatorPrompts, c \in EvaluateContents, t \in LoopTasks}
    /\ pc = "start"
    /\ calls = << >>
    /\ locals = << >>
    /\ outcome = Pending

\* generate, lines 201-205, up to its await.
generate ==
    /\ pc = "start"
    /\ args.fn = "generate"
    /\ calls' = llmCallIssue(calls,
                    generate_fullPrompt(args.prompt, args.task, args.context))
    /\ pc' = "await llmCall"
    /\ UNCHANGED <<args, locals, outcome>>

\* generate after its call has settled in log, lines 205-215: the pair of
\* thoughts and result, or the rejection.
generate_resume(log) ==
    IF log[1].state = "rejected" THEN Threw(log[1].error)
    ELSE Returned(<<extractXml(log[1].text, "thoughts"),
                    extractXml(log[1].text, "response")>>)

\* The provider answers the call of generate.
generate_llmCallSettles(raw) ==
    /\ pc = "await llmCall"
    /\ args.fn = "generate"
    /\ calls' = llmCallSettle(calls, 1, raw)
    /\ outcome' = generate_resume(llmCallSettle(calls, 1, raw))
    /\ pc' = "done"
    /\ UNCHANGED <<args, locals>>

\* evaluate, lines 226-228, up to its await.
evaluate ==
    /\ pc = "start"
    /\ args.fn = "evaluate"
    /\ calls' = llmCallIssue(calls,
                    evaluate_fullPrompt(args.prompt, args.content, args.task))
    /\ pc' = "await llmCall"
    /\ UNCHANGED <<args, locals, outcome>>

\* evaluate after its call has settled in log, lines 228-237: the pair of
\* evaluation and feedback, or the rejection.
evaluate_resume(log) ==
    IF log[1].state = "rejected" THEN Threw(log[1].error)
    ELSE Returned(<<extractXml(log[1].text, "evaluation"),
                    extractXml(log[1].text, "feedback")>>)

\* The provider answers the call of evaluate.
evaluate_llmCallSettles(raw) ==
    /\ pc = "await llmCall"
    /\ args.fn = "evaluate"
    /\ calls' = llmCallSettle(calls, 1, raw)
    /\ outcome' = evaluate_resume(llmCallSettle(calls, 1, raw))
    /\ pc' = "done"
    /\ UNCHANGED <<args, locals>>

NextGenerate ==
    \/ generate
    \/ \E raw \in GenerateRaw : generate_llmCallSettles(raw)

NextEvaluate ==
    \/ evaluate
    \/ \E raw \in EvaluateRaw : evaluate_llmCallSettles(raw)

\* One invocation of any of the functions that read a tag.
InitTagReaders ==
    InitExtract \/ InitGenerate \/ InitEvaluate \/ InitRoute \/ InitProcess

NextTagReaders ==
    \/ NextExtract
    \/ NextGenerate
    \/ NextEvaluate
    \/ NextRoute
    \/ NextProcess

SpecTagReaders == InitTagReaders /\ [][NextTagReaders]_vars

\* The text holds no opening tag with a closing tag after it.
NoPair(text, tag) ==
    ~\E p, c \in 1..Len(text) :
        /\ p < c
        /\ toLowerCaseToken(text[p]) = "<" \o tag \o ">"
        /\ toLowerCaseToken(text[c]) = "</" \o tag \o ">"

\* The function has got the response of its first call.
Answered(fn) == args.fn = fn /\ Len(calls) >= 1 /\ calls[1].state = "resolved"

\* The worker calls that have returned a response without a response pair.
WorkersWithoutResponseTag ==
    {i \in 1..Len(locals.workers) :
        /\ locals.workers[i].call # 0
        /\ calls[locals.workers[i].call].state = "resolved"
        /\ NoPair(calls[locals.workers[i].call].text, "response")}

\* C19: extractXml returns "" for every text without a pair of the requested
\* tag, and the functions that read a tag go on with "" when the response
\* has no such pair: generate and evaluate return it in their pair, route
\* goes on to look the selection up, process keeps an empty analysis and
\* dispatches its workers, and a worker returns an empty result.
C19_MissingTagIsNoError ==
    /\ (args.fn = "extractXml" /\ pc = "done" /\ NoPair(args.text, toLowerCaseToken(args.tag)))
          => outcome = Returned(EmptyString)
    /\ Answered("generate") =>
          /\ outcome.kind = "returned"
          /\ NoPair(calls[1].text, "thoughts") => outcome.value[1] = EmptyString
          /\ NoPair(calls[1].text, "response") => outcome.value[2] = EmptyString
    /\ Answered("evaluate") =>
          /\ outcome.kind = "returned"
          /\ NoPair(calls[1].text, "evaluation") => outcome.value[1] = EmptyString
          /\ NoPair(calls[1].text, "feedback") => outcome.value[2] = EmptyString
    /\ (Answered("route") /\ NoPair(calls[1].text, "reasoning")) =>
          /\ locals.reasoning = EmptyString
          /\ \/ Len(calls) = 2
             \/ outcome = Threw(Error(0, "Selected route is invalid.", locals.routeKey))
    /\ (Answered("process") /\ NoPair(calls[1].text, "analysis")) =>
          /\ locals.analysis = EmptyString
          /\ Len(locals.workers) = Len(locals.subTasks)
          /\ outcome.kind = "returned" => outcome.value.analysis = EmptyString
    /\ Answered("process") =>
          \A i \in WorkersWithoutResponseTag :
             /\ locals.workers[i].state = "resolved"
             /\ locals.values[i].result = EmptyString
             /\ outcome.kind = "returned" =>
                   outcome.value.worker_results[i].result = EmptyString

\* C19 witness: process has returned an empty analysis and the empty result
\* of a worker, after responses that held neither tag.
C19_Witness ==
    /\ Answered("process")
    /\ NoPair(calls[1].text, "analysis")
    /\ WorkersWithoutResponseTag # {}
    /\ outcome.kind = "returned"
    /\ outcome.value.analysis = EmptyString
    /\ \E i \in WorkersWithoutResponseTag :
          outcome.value.worker_results[i].result = EmptyString


(***************************************************************************)
(* The two fan-ins: parallel and the worker dispatch of process            *)
(***************************************************************************)
InitFanIn == InitParallel \/ InitProcess

NextFanIn ==
    \/ NextParallel
    \/ NextProcess

SpecFanIn == InitFanIn /\ [][NextFanIn]_vars

\* The calls that have failed, and the one of them that failed first.
FailedCalls == {c \in 1..Len(calls) : calls[c].state = "rejected"}
FirstFailedCall ==
    CHOOSE c \in FailedCalls : \A d \in FailedCalls : calls[c].settled <= calls[d].settled

\* A fan-in all of whose promises wait for a call: for process, no worker
\* callback has thrown before issuing its call.
EveryPromiseHasACall ==
    /\ args.fn \in {"parallel", "process"}
    /\ args.fn = "process" => \A i \in 1..Len(locals.workers) : locals.workers[i].call # 0

\* As soon as a call has failed the aggregate has failed with the failure
\* that came first in time, whatever the other calls are doing.
C20_FirstFailureWins ==
    (EveryPromiseHasACall /\ FailedCalls # {}) =>
        outcome = Threw(calls[FirstFailedCall].error)

\* A call in flight stays answerable after the aggregate has failed.
C20_NotCancelled ==
    (args.fn \in {"parallel", "process"} /\ outcome.kind = "threw") =>
        \A c \in 1..Len(calls) :
            calls[c].state = "pending" =>
                /\ args.fn = "parallel" => ENABLED parallel_llmCallSettles(c, TransportError)
                /\ args.fn = "process" =>
                      \E i \in 1..Len(locals.workers) :
                          /\ locals.workers[i].call = c
                          /\ ENABLED process_workerSettles(i, TransportError)

\* A failure that the aggregate has propagated is never changed.
C20_FailureIsFinal ==
    (outcome.kind = "threw") => (outcome' = outcome)

\* C20: in both fan-ins, when calls are in flight and one fails the
\* aggregate fails at once with the failure that occurred first in time, not
\* the one of lowest index; the other calls are not cancelled and settle on
\* their own, and what they settle to never changes the propagated failure.
C20_FanInFailsWithFirstFailure ==
    /\ [](C20_FirstFailureWins /\ C20_NotCancelled)
    /\ [][C20_FailureIsFinal]_vars

\* C20 witness: of three workers in flight the last one failed first, then
\* the second succeeded and the first failed in another way; process still
\* holds the failure of the last one.
C20_Witness ==
    /\ args.fn = "process"
    /\ Len(calls) = 4
    /\ calls[4].state = "rejected" /\ calls[4].settled = 2
    /\ calls[3].state = "resolved" /\ calls[3].settled = 3
    /\ calls[2].state = "rejected" /\ calls[2].settled = 4
    /\ outcome = Threw(calls[4].error)
    /\ outcome.error # calls[2].error


(***************************************************************************)
(* Issuance and ordering of the completion calls                           *)
(***************************************************************************)

\* Once parallel has started, its call log holds one call per element of
\* inputs, call i with the prompt made for inputs[i]; with no input it holds
\* no call and parallel has returned the empty list.
C21_OneCallPerInput ==
    (args.fn = "parallel" /\ pc # "start") =>
        /\ Len(calls) = Len(args.inputs)
        /\ \A i \in 1..Len(args.inputs) : calls[i].prompt = ParallelPromptFor(i)
        /\ args.inputs = << >> => outcome = Returned(<< >>)

\* Every call of parallel is issued by its first step, where none has an
\* answer yet; no later step, and so no completion, issues a call.
C21_IssuedBeforeAnyAnswer ==
    args.fn = "parallel" =>
        /\ pc = "start" =>
              /\ calls = << >>
              /\ \A c \in 1..Len(calls') : calls'[c].state = "pending"
        /\ pc # "start" => Len(calls') = Len(calls)

\* C21: parallel issues exactly one completion call per element of inputs,
\* with the prompt, "\nInput: " and the element, all of them before it waits
\* for any, so that all can be in flight together; with an empty inputs list
\* it issues no call and returns an empty list.
C21_ParallelIssuesAllCallsAtOnce ==
    [](C21_OneCallPerInput) /\ [][C21_IssuedBeforeAnyAnswer]_vars

\* C21 witness: three calls of parallel are in flight and none has an answer.
C21_Witness ==
    /\ args.fn = "parallel"
    /\ Len(args.inputs) = 3
    /\ Len(calls) = 3
    /\ \A c \in 1..3 : calls[c].state = "pending"
    /\ args.inputs[1] # args.inputs[2]
    /\ outcome.kind = "pending"


\* Call c is a generate call: its prompt opens with the generator prompt.
\* Call c is an evaluate call for a content: its prompt is the evaluator
\* prompt, the task and the content.
IsGenerateCall(c) ==
    /\ Len(calls[c].prompt) >= Len(args.generatorPrompt)
    /\ SubSeq(calls[c].prompt, 1, Len(args.generatorPrompt)) = args.generatorPrompt
IsEvaluateCallOn(c, content) ==
    calls[c].prompt = args.evaluatorPrompt \o <<"\n", "Original task: ">> \o args.task
                        \o <<"\n", "Content to evaluate: ">> \o content
IsEvaluateCall(c) ==
    /\ Len(calls[c].prompt) >= Len(args.evaluatorPrompt)
    /\ SubSeq(calls[c].prompt, 1, Len(args.evaluatorPrompt)) = args.evaluatorPrompt

\* C22: the calls of a loop run alternate generate, evaluate, generate, ...
\* from a generate on; a call is issued only when every call before it has
\* returned, so at most one is in flight; every evaluate call is on the
\* candidate of the generate call just before it; and when the loop has
\* returned there are as many evaluate calls as generate calls.
C22_LoopCallsAlternate ==
    args.fn = "loop" =>
        /\ \A c \in 1..Len(calls) :
              /\ c % 2 = 1 => IsGenerateCall(c) /\ ~IsEvaluateCall(c)
              /\ c % 2 = 0 =>
                    /\ IsEvaluateCall(c) /\ ~IsGenerateCall(c)
                    /\ IsEvaluateCallOn(c, extractXml(calls[c - 1].text, "response"))
              /\ c < Len(calls) => calls[c].state = "resolved"
        /\ Cardinality({c \in 1..Len(calls) : calls[c].state = "pending"}) <= 1
        /\ pc # "start" => Len(calls) >= 1
        /\ outcome.kind = "returned" =>
              Cardinality({c \in 1..Len(calls) : IsEvaluateCall(c)})
                 = Cardinality({c \in 1..Len(calls) : IsGenerateCall(c)})

\* C22 witness: the loop has returned after three generate calls with three
\* different candidates, each followed by its evaluate call.
C22_Witness ==
    /\ args.fn = "loop"
    /\ outcome.kind = "returned"
    /\ Len(calls) = 6
    /\ CandidateOf(1) # CandidateOf(2)
    /\ CandidateOf(2) # CandidateOf(3)
    /\ CandidateOf(1) # CandidateOf(3)
    /\ IsEvaluateCallOn(6, CandidateOf(3))


\* C23: once a generate or evaluate call of a loop run has failed, the loop
\* has failed with that failure; the failed call is the last call of the
\* run (no call was issued after it, none repeats it), and the loop holds
\* neither a candidate nor the history as its result.
C23_LoopFailsWithTheFailedCall ==
    (args.fn = "loop" /\ FailedCalls # {}) =>
        /\ FailedCalls = {Len(calls)}
        /\ \A c \in 1..Len(calls) : calls[c].state # "pending"
        /\ outcome = Threw(calls[Len(calls)].error)
        /\ outcome.value = << >>
        /\ pc = "done"

\* C23 witness: the second evaluate call failed after two generations had
\* put two entries into the history.
C23_Witness ==
    /\ args.fn = "loop"
    /\ Len(calls) = 4
    /\ calls[4].state = "rejected"
    /\ Len(locals.chainOfThought) = 2
    /\ locals.result # EmptyString
    /\ outcome.kind = "threw"


\* The text that the orchestrator template of the invocation becomes.
DecompositionPrompt ==
    <<"Plan: ">> \o FillOf("task", args.task)
    \o (IF args.orchestratorPrompt = OrchestratorTemplateExtra
        THEN <<" with ">> \o FillOf("extra", <<"{extra}">>)
        ELSE << >>)

\* The SubTasks whose worker prompt is left without an unfilled token, and
\* the place of SubTask i among them.
FormattedWorkers == {i \in 1..Len(locals.subTasks) : WorkerUnfilled(i) = << >>}
RankAmongFormatted(formatted, i) == Cardinality({j \in formatted : j <= i})

\* The claim as stated, on the decomposition call: nothing is issued before
\* process starts; once it has started the first call of the log is the
\* decomposition call, and no other call exists until it has returned a
\* response.
C24_DecompositionCallIssued ==
    /\ pc = "start" => calls = << >>
    /\ pc # "start" => (Len(calls) >= 1 /\ calls[1].prompt = DecompositionPrompt)
    /\ (Len(calls) >= 1 /\ calls[1].state # "resolved") => Len(calls) = 1

\* The claim as amended, on the decomposition call: nothing is issued before
\* process starts.  Once it has started: when the orchestrator prompt is
\* left with an unfilled token, no call at all has been issued and process
\* has failed with the missing-variable error that names the token;
\* otherwise the first call of the log is the decomposition call, and no
\* other call exists until it has returned a response.
C24_DecompositionFirst ==
    /\ pc = "start" => calls = << >>
    /\ (pc # "start" /\ OrchestratorUnfilled # << >>) =>
          /\ calls = << >>
          /\ outcome = Threw(MissingVariable(OrchestratorUnfilled))
    /\ (pc # "start" /\ OrchestratorUnfilled = << >>) =>
          /\ Len(calls) >= 1
          /\ calls[1].prompt = DecompositionPrompt
    /\ (Len(calls) >= 1 /\ calls[1].state # "resolved") => Len(calls) = 1

\* Calls are issued in two steps only: the decomposition call when process
\* starts, and every worker call in the step in which the decomposition
\* call returns, where none of them has an answer yet.
C24_IssuedInTwoSteps ==
    (args.fn = "process" /\ Len(calls') # Len(calls)) =>
        \/ pc = "start" /\ Len(calls') = 1
        \/ /\ pc = "await orchestrator"
           /\ \A c \in 2..Len(calls') : calls'[c].state = "pending"

\* The claim as stated: a decomposition call is issued first, and after it
\* has returned there is exactly one worker call per SubTask.
C24_OneWorkerCallPerSubTask ==
    args.fn = "process" =>
        /\ C24_DecompositionCallIssued
        /\ OrchestratorAnswered =>
              /\ Len(calls) = 1 + Len(locals.subTasks)
              /\ \A i \in 1..Len(locals.subTasks) : calls[1 + i].prompt = WorkerPromptFor(i)

\* The claim as amended, in a state: after the decomposition call has
\* returned there is exactly one worker call for every SubTask whose worker
\* prompt is left without an unfilled token, in SubTask order, and none for
\* any other SubTask; when there is such another SubTask process has failed
\* with the missing-variable error of the first of them; a process that has
\* returned has issued 1 + n calls for its n SubTasks.
C24_OneWorkerCallPerFormattedSubTask ==
    args.fn = "process" =>
        /\ C24_DecompositionFirst
        /\ OrchestratorAnswered =>
              LET formatted == FormattedWorkers
              IN  /\ Len(calls) = 1 + Cardinality(formatted)
                  /\ \A i \in formatted :
                        calls[1 + RankAmongFormatted(formatted, i)].prompt = WorkerPromptFor(i)
                  /\ formatted # 1..Len(locals.subTasks) =>
                        outcome = Threw(MissingVariable(WorkerUnfilled(
                                      Min(1..Len(locals.subTasks) \ formatted))))
                  /\ outcome.kind = "returned" => Len(calls) = 1 + Len(locals.subTasks)

\* C24 (amended): when the orchestrator prompt does not format, no call is
\* issued and process fails with the missing-variable error; otherwise
\* exactly one decomposition call is issued first; no worker call is issued
\* before it has returned, and none when it fails; then exactly one worker
\* call is issued for each SubTask whose worker prompt formats, all of them
\* before any is answered, and none for a SubTask whose prompt does not
\* format, in which case process fails with that SubTask's missing-variable
\* error; a successful process with n SubTasks has issued exactly 1 + n calls.
C24_ProcessCallOrder ==
    [](C24_OneWorkerCallPerFormattedSubTask) /\ [][C24_IssuedInTwoSteps]_vars

\* C24 witness: of three SubTasks the second has a description with a brace
\* token; the worker calls of the first and the third are in flight, there
\* is none for the second, and process has failed with the error that names
\* the token.
C24_Witness ==
    /\ OrchestratorAnswered
    /\ Len(locals.subTasks) = 3
    /\ outcome = Threw(MissingVariable(WorkerUnfilled(2)))
    /\ FormattedWorkers = {1, 3}
    /\ Len(calls) = 3
    /\ calls[2].state = "pending" /\ calls[3].state = "pending"
    /\ calls[3].prompt = WorkerPromptFor(3)
    /\ calls[2].prompt # calls[3].prompt


(***************************************************************************)
(* formatPrompt(template, kwargs) on its own                               *)
(***************************************************************************)
MaxTemplate == 3   \* longest template, in tokens, handed to formatPrompt

FormatTokens == {"Do ", "{task_type}", "{task_description}"}
FormatKeys == {"task_type", "task_description"}
FormatValues == {<<"v">>, <<"{task_description}">>, <<"use ", "{x}">>, <<"$&">>, <<"$$">>}

\* The objects over FormatKeys: every choice of own keys, in every insertion
\* order, with every choice of values.
FormatKwargs ==
    {ks \in SeqsUpTo([key : FormatKeys, value : FormatValues], Cardinality(FormatKeys)) :
        \A i, j \in 1..Len(ks) : ks[i].key = ks[j].key => i = j}

InitFormat ==
    /\ args \in {[fn |-> "formatPrompt", template |-> t, kwargs |-> k] :
                   t \in SeqsUpTo(FormatTokens, MaxTemplate), k \in FormatKwargs}
    /\ pc = "start"
    /\ calls = << >>
    /\ locals = << >>
    /\ outcome = Pending

\* formatPrompt is called and returns or throws, lines 332-349.
formatPrompt_returns ==
    /\ pc = "start"
    /\ args.fn = "formatPrompt"
    /\ pc' = "done"
    /\ outcome' = LET r == formatPrompt(args.template, args.kwargs)
                  IN IF r.ok THEN Returned(r.text) ELSE Threw(r.error)
    /\ UNCHANGED <<args, calls, locals>>

NextFormat == formatPrompt_returns

SpecFormat == InitFormat /\ [][NextFormat]_vars

\* Whether kwargs has the key that the token tok names between its braces.
HasKeyFor(kwargs, tok) ==
    \E k \in 1..Len(kwargs) : tok = "{" \o kwargs[k].key \o "}"
ValueFor(kwargs, tok) ==
    kwargs[CHOOSE k \in 1..Len(kwargs) : tok = "{" \o kwargs[k].key \o "}"].value

RECURSIVE Verbatim(_, _)
\* The template with every token that names a key of kwargs replaced by the
\* value of that key as it is, and nothing else changed.
Verbatim(template, kwargs) ==
    IF template = << >> THEN EmptyString
    ELSE (IF HasKeyFor(kwargs, Head(template))
          THEN ValueFor(kwargs, Head(template))
          ELSE <<Head(template)>>)
         \o Verbatim(Tail(template), kwargs)

\* C25: when every {name} token of the template has a key in the mapping,
\* formatPrompt succeeds and returns the template with each token replaced
\* by the value of its key verbatim; a value is neither substituted again
\* nor reported as a missing variable, whatever braces it holds.
C25_SubstitutesTemplateTokensOnly ==
    ( /\ args.fn = "formatPrompt"
      /\ pc = "done"
      /\ \A k \in 1..Len(args.template) :
            IsPlaceholder(args.template[k]) => HasKeyFor(args.kwargs, args.template[k]) )
    => outcome = Returned(Verbatim(args.template, args.kwargs))


(***************************************************************************)
(* Precedence of the context over the built-in values                      *)
(***************************************************************************)
\* C26: in every prompt that process sends, {task} of the orchestrator
\* template and {original_task}, {task_type} and {task_description} of the
\* worker template are filled with the context's value when the context has
\* a key of that name, and otherwise with the task argument and with the
\* type and description of the SubTask the worker call is issued for.
C26_ContextValueTakesPrecedence ==
    args.fn = "process" =>
        /\ Len(calls) >= 1 =>
              calls[1].prompt =
                  <<"Plan: ">>
                  \o (IF ContextHas("task") THEN ContextValue("task") ELSE args.task)
                  \o (IF args.orchestratorPrompt = OrchestratorTemplateExtra
                      THEN <<" with ">> \o ContextValue("extra") ELSE << >>)
        /\ OrchestratorAnswered =>
              \A i \in 1..Len(locals.workers) :
                  locals.workers[i].call # 0 =>
                      calls[locals.workers[i].call].prompt =
                          <<"Do ">>
                          \o (IF ContextHas("task_type") THEN ContextValue("task_type")
                              ELSE locals.subTasks[i].type)
                          \o <<": ">>
                          \o (IF ContextHas("task_description")
                              THEN ContextValue("task_description")
                              ELSE locals.subTasks[i].description)
                          \o <<" for ">>
                          \o (IF ContextHas("original_task") THEN ContextValue("original_task")
                              ELSE args.task)
                          \o (IF args.workerPrompt = WorkerTemplateExtra
                              THEN <<" with ">> \o ContextValue("extra") ELSE << >>)

\* C26 witness: the context has original_task and task_description but
\* neither task nor task_type; the decomposition prompt carries the task
\* argument, and the worker calls of two SubTasks of different type carry
\* the context's two values and each its own SubTask's type.
C26_Witness ==
    /\ OrchestratorAnswered
    /\ args.context = WorkerContext
    /\ calls[1].prompt = <<"Plan: ">> \o args.task
    /\ Len(locals.subTasks) >= 2
    /\ locals.subTasks[1].type # locals.subTasks[2].type
    /\ Len(calls) >= 3
    /\ calls[2].prompt = <<"Do ">> \o locals.subTasks[1].type \o <<": ", "cd", " for ", "OT">>
    /\ calls[3].prompt = <<"Do ">> \o locals.subTasks[2].type \o <<": ", "cd", " for ", "OT">>

\* C26 witness of the other two keys: the context has task and task_type,
\* and they are what the decomposition prompt and a worker prompt carry.
C26_TaskContextReached ==
    /\ OrchestratorAnswered
    /\ args.context = TaskContext
    /\ calls[1].prompt = <<"Plan: ", "CT">>
    /\ Len(calls) >= 2
    /\ calls[2].prompt = <<"Do ", "ctype", ": ">> \o locals.subTasks[1].description
                         \o <<" for ">> \o args.task


\* C24, the other case of the amended claim reached: the orchestrator prompt
\* is left with an unfilled token, process has failed and no call exists.
C24_NoCallReached ==
    /\ args.fn = "process"
    /\ pc = "done"
    /\ OrchestratorUnfilled # << >>
    /\ calls = << >>
    /\ outcome.kind = "threw"

====
